---- MODULE Spec2Model ----
(***************************************************************************)
(* A model of the retrieval / generation / structured-extraction core of   *)
(* the RAG backend (backend/app/services), of its vector store (collection *)
(* cache, embedding provider, ingestion), of its chunking service, of its  *)
(* parsers and tabular conversion, of the document processor (upload, web  *)
(* page, database query, deletion) and of the file watcher.                *)
(*                                                                         *)
(* Python values are modelled as follows.                                  *)
(*   - a list is a sequence; None and the empty list are both <<>> where   *)
(*     the code only tests truthiness (`if not collection_names`,          *)
(*     `if document_ids and len(document_ids) > 0`);                       *)
(*   - a str that the code only tests for truthiness is "" when it is None *)
(*     (`elif document_id:`);                                              *)
(*   - a dict is a function whose DOMAIN is its key set; an ordered dict   *)
(*     that the code iterates (settings.COLLECTIONS) is a sequence of      *)
(*     [key, value] records in insertion order;                            *)
(*   - a float distance score is an integer.                               *)
(***************************************************************************)
EXTENDS Integers, Sequences, FiniteSets, TLC

VARIABLES
    store,        \* the backing vector index: collection name -> Absent or its segments and their ids
    collections,  \* VectorStore.collections: the per-process cache, collection name -> handle
    created,      \* how often create_collection succeeded, per collection name
    callers,      \* where each thread stands inside VectorStore.get_collection
    returned,     \* the handles get_collection returned, as [name, handle], in return order
    chunker,      \* the ChunkingService: its config and its _text_splitter, once built
    settings,     \* the LLM part of Settings: provider and which credentials are configured
    phase,        \* where RAGGenerator.__init__ stands
    llm,          \* RAGGenerator.llm
    attempts,     \* the providers whose initializer was called, in call order
    failed,       \* the providers whose initialization or smoke test failed
    db,           \* the relational store: document records and their chunk rows
    watch,        \* the watched directory and the file watcher's table of processed files
    call          \* the last completed operation: its arguments and what it returned

vars == <<store, collections, created, callers, returned, chunker, settings, db, watch, phase, llm,
          attempts, failed, call>>

(***************************************************************************)
(* Bounds of the model.                                                    *)
(***************************************************************************)
MaxCollections == 2   \* longest collection_names list a request carries
MaxTopK == 2          \* largest top_k a request carries
MaxGetCalls == 3      \* get_collection calls one thread makes
MaxStored == 3        \* segments a collection holds before ingestion stops

(***************************************************************************)
(* Generic helpers.                                                        *)
(***************************************************************************)
Range(s) == {s[i] : i \in DOMAIN s}

Take(s, n) == SubSeq(s, 1, IF n < Len(s) THEN n ELSE Len(s))

SeqsUpTo(S, n) == UNION {[1..m -> S] : m \in 0..n}

\* dict.get(k, d)
Get(m, k, d) == IF k \in DOMAIN m THEN m[k] ELSE d

\* Python's sorted(..., key=...) is stable: a sequence of [key, val] records
\* ordered by ascending key, equal keys keeping their input order.
RECURSIVE sorted(_)
sorted(s) ==
    IF s = <<>> THEN <<>>
    ELSE LET init == sorted(SubSeq(s, 1, Len(s) - 1))
             x == s[Len(s)]
             n == Cardinality({i \in DOMAIN init : init[i].key <= x.key})
         IN  SubSeq(init, 1, n) \o <<x>> \o SubSeq(init, n + 1, Len(init))

(***************************************************************************)
(* Settings (core/config.py).                                              *)
(***************************************************************************)
COLLECTIONS ==
    << [key |-> "documents", value |-> "documents_collection"],
       [key |-> "images", value |-> "images_collection"] >>

MAX_RETRIEVED_DOCUMENTS == 5

\* iterating a dict yields its keys; list(d.values()) its values
DictKeys(d) == [i \in DOMAIN d |-> d[i].key]
DictValues(d) == [i \in DOMAIN d |-> d[i].value]
DictHas(d, k) == \E i \in DOMAIN d : d[i].key = k
DictAt(d, k) == d[CHOOSE i \in DOMAIN d : d[i].key = k].value

(***************************************************************************)
(* Segments and the backing vector index.                                  *)
(***************************************************************************)
Seg(content, meta, dist) == [page_content |-> content, metadata |-> meta, score |-> dist]

FileMeta(doc, file, chunk) ==
    [document_id |-> doc, filename |-> file, chunk |-> chunk]

CollectionUniverse ==
    {"documents", "images", "documents_collection", "images_collection", "web_pages"}

\* the id the index gives a segment stored without one (a uuid4), and an
\* id a caller supplies
Uuid(n) == [kind |-> "uuid", n |-> n]
Given(n) == [kind |-> "given", n |-> n]

\* a collection: its segments and, position by position, their ids
Existing(segs) ==
    [exists |-> TRUE, segments |-> segs, ids |-> [i \in DOMAIN segs |-> Uuid(i)]]
Absent == [exists |-> FALSE, segments |-> <<>>, ids |-> <<>>]

\* An index holding ingested files: two collections of three segments each
\* (so that one query can collect more than MAX_RETRIEVED_DOCUMENTS), with
\* equal distances inside and across collections.
PopulatedStore ==
    [n \in CollectionUniverse |->
        CASE n = "documents" ->
               Existing(<< Seg("d1", FileMeta("docA", "a.pdf", 1), 4),
                           Seg("d2", FileMeta("docB", "b.txt", 0), 2),
                           Seg("d3", FileMeta("docA", "a.pdf", 0), 4) >>)
          [] n = "images" ->
               Existing(<< Seg("i1", FileMeta("docC", "c.png", 0), 1),
                           Seg("i2", FileMeta("docA", "a.pdf", 2), 4),
                           Seg("i3", FileMeta("docB", "b.txt", 1), 3) >>)
          [] n = "documents_collection" ->
               Existing(<< Seg("x1", [document_id |-> "docA", title |-> "A"], 0) >>)
          [] OTHER -> Absent]

EmptyStore == [n \in CollectionUniverse |-> Absent]

(***************************************************************************)
(* VectorStore (services/vector_store.py).                                 *)
(***************************************************************************)
\* A metadata filter is a dict: key -> [op, vals]; op "eq" is the bare value
\* form {"document_id": v}, op "in" the form {"document_id": {"$in": [...]}}.
Eq(v) == [op |-> "eq", vals |-> <<v>>]
In(vs) == [op |-> "in", vals |-> vs]
NoFilter == [k \in {} |-> Eq("")]

Matches(seg, filter) ==
    \A k \in DOMAIN filter :
        /\ k \in DOMAIN seg.metadata
        /\ seg.metadata[k] \in Range(filter[k].vals)

\* get_collection: a name that is not cached is looked up in the backing
\* store, created there when missing, and cached.
\* a variant of line 133 that never finds the name in the cache
CacheMissAlways(cache, name) == TRUE

\* line 133: `if collection_name not in self.collections`
CacheMiss(cache, name) == name \notin DOMAIN cache

\* lines 143-147: the Chroma wrapper built for a name; handles are numbered
\* in the order they are built
NewHandle(cache, name, handle) ==
    [n \in DOMAIN cache \cup {name} |-> IF n = name THEN handle ELSE cache[n]]

\* lines 131-151 run without interruption.  made counts the successful
\* create_collection calls per name.
get_collection(st, cache, made, name) ==
    IF CacheMiss(cache, name)
    THEN [store |-> IF st[name].exists THEN st ELSE [st EXCEPT ![name] = Existing(<<>>)],
          collections |-> NewHandle(cache, name, Cardinality(DOMAIN cache) + 1),
          created |-> IF st[name].exists THEN made ELSE [made EXCEPT ![name] = @ + 1]]
    ELSE [store |-> st, collections |-> cache, created |-> made]

\* similarity_search_with_score: the k nearest segments that satisfy the
\* filter, nearest first, as (segment, distance) pairs.
search_with_score(st, name, filter, k) ==
    LET all == st[name].segments
        hits == SelectSeq(all, LAMBDA seg : Matches(seg, filter))
        keyed == [i \in DOMAIN hits |-> [key |-> hits[i].score, val |-> hits[i]]]
    IN  Take(sorted(keyed), k)

\* Chroma.add_documents without ids: one new uuid per document
FreshIds(col, n) == [i \in 1..n |-> Uuid(Len(col.ids) + i)]

\* a variant that stores by plain insertion, whatever ids are there
InsertAlways(col, doc, id) ==
    [col EXCEPT !.segments = Append(@, doc), !.ids = Append(@, id)]

\* Chroma.add_documents stores by upsert: a segment whose id is there is
\* replaced, any other is added
Upsert(col, doc, id) ==
    IF \E i \in DOMAIN col.ids : col.ids[i] = id
    THEN [col EXCEPT !.segments[CHOOSE i \in DOMAIN col.ids : col.ids[i] = id] = doc]
    ELSE [col EXCEPT !.segments = Append(@, doc), !.ids = Append(@, id)]

RECURSIVE UpsertAll(_, _, _)
UpsertAll(col, documents, ids) ==
    IF documents = <<>> THEN col
    ELSE UpsertAll(Upsert(col, Head(documents), Head(ids)), Tail(documents), Tail(ids))

\* lines 153-167 after get_collection: the documents stored under ids, or
\* under new ids when ids is None (<<>>); the ids are returned
add_documents(st, name, documents, ids) ==
    LET use == IF ids = <<>> THEN FreshIds(st[name], Len(documents)) ELSE ids
    IN  [store |-> [st EXCEPT ![name] = UpsertAll(st[name], documents, use)],
         ids |-> use]

\* lines 21-68: _get_embeddings under the embedding settings cfg.  outcome
\* is what the provider's client does once it is built: it works, its
\* constructor raises or the test embedding raises.  embeddings is the
\* provider of the object returned, None when the function returns nothing.
get_embeddings(cfg, outcome) ==
    IF cfg.EMBEDDING_PROVIDER = "azure"
    THEN IF cfg.AZURE_OPENAI_API_KEY /\ cfg.AZURE_OPENAI_ENDPOINT /\ cfg.AZURE_EMBEDDING_DEPLOYMENT
         THEN IF outcome = "works"
              THEN [raised |-> FALSE, embeddings |-> "azure"]
              ELSE [raised |-> TRUE, embeddings |-> "None"]
         ELSE [raised |-> FALSE, embeddings |-> "None"]
    ELSE IF cfg.EMBEDDING_PROVIDER = "openai"
    THEN IF ~cfg.OPENAI_API_KEY
         THEN [raised |-> TRUE, embeddings |-> "None"]
         ELSE IF outcome = "works"
              THEN [raised |-> FALSE, embeddings |-> "openai"]
              ELSE [raised |-> TRUE, embeddings |-> "None"]
    ELSE [raised |-> TRUE, embeddings |-> "None"]

(***************************************************************************)
(* VectorStore.get_collection statement by statement, as a thread runs it. *)
(* The request handlers run on the event loop's thread, the file watcher   *)
(* (app/main.py line 165) on its own; both reach get_collection through    *)
(* the one vector_store instance.                                          *)
(***************************************************************************)
\* the collections the threads ask for
GetNames == {"documents", "images_collection", "web_pages"}

At(t, position) == callers[t].at = position
Goto(t, position) == callers' = [callers EXCEPT ![t].at = position]

\* line 133: the cache test, on entry
EnterGetCollection(t) ==
    /\ At(t, "idle")
    /\ callers[t].calls < MaxGetCalls
    /\ \E name \in GetNames :
           callers' = [callers EXCEPT ![t] =
                          [at |-> IF CacheMiss(collections, name) THEN "list" ELSE "return",
                           name |-> name, calls |-> @.calls + 1]]
    /\ UNCHANGED <<store, collections, created, returned, chunker, settings, db, watch, phase, llm,
                   attempts, failed, call>>

\* lines 134-138: client.list_collections() and the test for the name
ListCollections(t) ==
    /\ At(t, "list")
    /\ Goto(t, IF store[callers[t].name].exists THEN "wrap" ELSE "create")
    /\ UNCHANGED <<store, collections, created, returned, chunker, settings, db, watch, phase, llm,
                   attempts, failed, call>>

\* lines 140-142: client.create_collection(name), which raises when the
\* name exists by now; the exception leaves get_collection
CreateCollection(t) ==
    /\ At(t, "create")
    /\ IF store[callers[t].name].exists
       THEN /\ Goto(t, "raised")
            /\ UNCHANGED <<store, created>>
       ELSE /\ Goto(t, "wrap")
            /\ store' = [store EXCEPT ![callers[t].name] = Existing(<<>>)]
            /\ created' = [created EXCEPT ![callers[t].name] = @ + 1]
    /\ UNCHANGED <<collections, returned, chunker, settings, db, watch, phase, llm, attempts, failed, call>>

\* lines 144-148: the wrapper is built and put into the cache
WrapCollection(t) ==
    /\ At(t, "wrap")
    /\ collections' = NewHandle(collections, callers[t].name,
                                [by |-> t, call |-> callers[t].calls])
    /\ Goto(t, "return")
    /\ UNCHANGED <<store, created, returned, chunker, settings, db, watch, phase, llm, attempts, failed, call>>

\* line 151: `return self.collections[collection_name]`
ReturnHandle(t) ==
    /\ At(t, "return")
    /\ returned' = Append(returned, [by |-> t, name |-> callers[t].name,
                                      handle |-> collections[callers[t].name]])
    /\ Goto(t, "idle")
    /\ UNCHANGED <<store, collections, created, chunker, settings, db, watch, phase, llm, attempts, failed, call>>

\* the caller of a get_collection that raised goes on with its next work
Propagate(t) ==
    /\ At(t, "raised")
    /\ Goto(t, "idle")
    /\ UNCHANGED <<store, collections, created, returned, chunker, settings, db, watch, phase, llm,
                   attempts, failed, call>>

(***************************************************************************)
(* RAGRetriever (services/retrieval/retriever.py).                         *)
(***************************************************************************)
\* lines 48-58: the collections searched when the caller names none
DefaultCollections(collection_names) ==
    IF collection_names = <<>>
    THEN IF DictHas(COLLECTIONS, "documents")
         THEN <<DictAt(COLLECTIONS, "documents")>>
         ELSE DictValues(COLLECTIONS)
    ELSE collection_names

\* d[k] = v on a dict
DictSet(d, k, v) == [x \in DOMAIN d \cup {k} |-> IF x = k THEN v ELSE d[x]]

\* a variant of lines 62-73 whose branches are swapped: the single
\* document_id is looked at first
ScopeFilterSingleFirst(filter_criteria, document_id, document_ids) ==
    IF document_id # ""
    THEN DictSet(filter_criteria, "document_id", Eq(document_id))
    ELSE IF Len(document_ids) > 0
         THEN DictSet(filter_criteria, "document_id", In(document_ids))
         ELSE filter_criteria

\* lines 62-73: document scoping merged into the filter
ScopeFilter(filter_criteria, document_id, document_ids) ==
    IF Len(document_ids) > 0
    THEN DictSet(filter_criteria, "document_id", In(document_ids))
    ELSE IF document_id # ""
         THEN DictSet(filter_criteria, "document_id", Eq(document_id))
         ELSE filter_criteria

\* lines 63-73 seen from the caller: the dict the caller passed, after the
\* call.  A falsy filter_criteria (None or {}) is replaced by a new dict
\* (line 64); any other is the caller's own object and is written to in
\* place (lines 69 and 73).
CallerFilterAfter(filter_criteria, document_id, document_ids) ==
    IF filter_criteria = NoFilter THEN filter_criteria
    ELSE ScopeFilter(filter_criteria, document_id, document_ids)

\* lines 84-89 under the try of line 81: one collection's search, which
\* either returns its pairs or raises
SearchOutcome(st, name, filter, k, outcome) ==
    IF outcome = "ok"
    THEN [raised |-> FALSE, pairs |-> search_with_score(st, name, filter, k)]
    ELSE [raised |-> TRUE, pairs |-> <<>>]

\* a variant of lines 80-104 without the try of line 81: the first search
\* that raises ends the loop and the exception leaves it
RECURSIVE SearchEachAborting(_, _, _)
SearchEachAborting(names, results, acc) ==
    IF names = <<>> THEN acc
    ELSE LET r == Head(results)
             searched == Append(acc.searched, Head(names))
         IN  IF r.raised
             THEN [pairs |-> acc.pairs, searched |-> searched, raised |-> TRUE]
             ELSE SearchEachAborting(Tail(names), Tail(results),
                      [pairs |-> acc.pairs \o r.pairs, searched |-> searched,
                       raised |-> FALSE])

\* lines 80-104: the loop over the collections; acc is
\* [pairs: all_documents zipped with all_scores, searched, raised]
RECURSIVE SearchEach(_, _, _)
SearchEach(names, results, acc) ==
    IF names = <<>> THEN acc
    ELSE LET r == Head(results)
             next == [pairs |-> IF r.raised THEN acc.pairs ELSE acc.pairs \o r.pairs,
                      searched |-> Append(acc.searched, Head(names)),
                      raised |-> FALSE]
         IN  SearchEach(Tail(names), Tail(results), next)

\* lines 108-117: the cut to MAX_RETRIEVED_DOCUMENTS
RankAndCut(pairs) ==
    IF Len(pairs) > MAX_RETRIEVED_DOCUMENTS
    THEN Take(sorted(pairs), MAX_RETRIEVED_DOCUMENTS)
    ELSE pairs

\* lines 219-237
get_source_identifier(doc) ==
    LET metadata == doc.metadata
    IN  IF "filename" \in DOMAIN metadata THEN metadata["filename"]
        ELSE IF "url" \in DOMAIN metadata THEN metadata["url"].base
        ELSE IF "title" \in DOMAIN metadata THEN metadata["title"]
        ELSE IF "source" \in DOMAIN metadata THEN metadata["source"]
        ELSE "Document"

\* lines 194-203: the source keys in first-seen order
RECURSIVE SourceKeys(_)
SourceKeys(documents) ==
    IF documents = <<>> THEN <<>>
    ELSE LET init == SourceKeys(SubSeq(documents, 1, Len(documents) - 1))
             key == get_source_identifier(documents[Len(documents)])
         IN  IF key \in Range(init) THEN init ELSE Append(init, key)

\* a variant of lines 206-215 without the sort of line 208
SourceBlockUnsorted(source_key, documents) ==
    LET docs == SelectSeq(documents, LAMBDA d : get_source_identifier(d) = source_key)
    IN  <<[header |-> source_key]>> \o [i \in DOMAIN docs |-> [text |-> docs[i].page_content]]

\* lines 206-215: one source's block: its header, then its documents by chunk
SourceBlock(source_key, documents) ==
    LET docs == SelectSeq(documents, LAMBDA d : get_source_identifier(d) = source_key)
        keyed == [i \in DOMAIN docs |->
                    [key |-> Get(docs[i].metadata, "chunk", 0), val |-> docs[i]]]
        ordered == sorted(keyed)
    IN  <<[header |-> source_key]>> \o
        [i \in DOMAIN ordered |-> [text |-> ordered[i].val.page_content]]

RECURSIVE Blocks(_, _)
Blocks(keys, documents) ==
    IF keys = <<>> THEN <<>>
    ELSE SourceBlock(Head(keys), documents) \o Blocks(Tail(keys), documents)

\* lines 178-217: the context, as its sequence of header and text lines
generate_context(documents) ==
    IF documents = <<>> THEN <<>> ELSE Blocks(SourceKeys(documents), documents)

\* lines 75-142: what retrieve_for_rag makes of the collections' outcomes
AssembleResult(names, filter, results) ==
    LET found == SearchEach(names, results,
                            [pairs |-> <<>>, searched |-> <<>>, raised |-> FALSE])
        kept == RankAndCut(found.pairs)
        relevant_docs == [i \in DOMAIN kept |-> kept[i].val]
    IN  IF found.raised
        THEN [raised |-> TRUE, searched |-> found.searched, filter |-> filter,
              pairs |-> found.pairs, documents |-> <<>>, context |-> <<>>,
              total_documents |-> 0, filtered_documents |-> 0]
        ELSE [raised |-> FALSE, searched |-> found.searched, filter |-> filter,
              pairs |-> found.pairs,
              documents |-> relevant_docs,
              context |-> generate_context(relevant_docs),
              total_documents |-> Len(relevant_docs),
              filtered_documents |-> Len(found.pairs) - Len(relevant_docs)]

\* lines 21-142.  outcomes[i] says whether searching the i-th collection raises.
retrieve_for_rag(collection_names, filter_criteria, document_id, document_ids, top_k, st, outcomes) ==
    LET names == DefaultCollections(collection_names)
        filter == ScopeFilter(filter_criteria, document_id, document_ids)
    IN  AssembleResult(names, filter,
            [i \in DOMAIN names |-> SearchOutcome(st, names[i], filter, top_k, outcomes[i])])

\* the get_collection calls of one retrieval, folded over the searched names
RECURSIVE TouchCollections(_, _, _, _)
TouchCollections(st, cache, made, names) ==
    IF names = <<>> THEN [store |-> st, collections |-> cache, created |-> made]
    ELSE LET g == get_collection(st, cache, made, Head(names))
         IN  TouchCollections(g.store, g.collections, g.created, Tail(names))

(***************************************************************************)
(* RAGGenerator (services/retrieval/generator.py): initialization.         *)
(*                                                                         *)
(* settings.AZURE_OPENAI says whether AZURE_OPENAI_API_KEY, _ENDPOINT and  *)
(* _DEPLOYMENT are all set, settings.OPENAI_API_KEY whether that key is.   *)
(* An initializer that gets as far as building its client meets one of     *)
(* InitOutcomes: the client is built and answers the test message, the     *)
(* constructor raises, or the test invocation raises.                      *)
(***************************************************************************)
None == "None"
Providers == {"azure", "openai"}
InitOutcomes == {"works", "constructor_raises", "test_raises"}

\* lines 54-79: returns self.llm after the call and whether the provider failed
initialize_openai(cfg, cur_llm, outcome) ==
    IF ~cfg.OPENAI_API_KEY
    THEN [llm |-> cur_llm, raised |-> FALSE, failed |-> TRUE]
    ELSE IF outcome = "works"
         THEN [llm |-> "openai", raised |-> FALSE, failed |-> FALSE]
         ELSE [llm |-> None, raised |-> FALSE, failed |-> TRUE]

\* lines 81-109: a raising constructor leaves self.llm as it was, a raising
\* test invocation leaves the client just built in self.llm; both re-raise
initialize_azure_openai(cfg, cur_llm, outcome) ==
    IF ~cfg.AZURE_OPENAI
    THEN [llm |-> cur_llm, raised |-> FALSE, failed |-> TRUE]
    ELSE CASE outcome = "works" -> [llm |-> "azure", raised |-> FALSE, failed |-> FALSE]
           [] outcome = "constructor_raises" -> [llm |-> cur_llm, raised |-> TRUE, failed |-> TRUE]
           [] outcome = "test_raises" -> [llm |-> "azure", raised |-> TRUE, failed |-> TRUE]

\* lines 49-52 and 111-114: with no llm the "mock" initializer raises
\* RuntimeError out of __init__, so no generator exists
Concluded(new_llm) == IF new_llm = None THEN "FAILED" ELSE "SUCCESS"

\* lines 31-33: RAGGenerator() sets self.llm = None and enters _initialize_llm
Construct ==
    /\ phase = "UNINITIALIZED"
    /\ phase' = "TRY_PRIMARY"
    /\ llm' = None
    /\ UNCHANGED <<store, collections, created, callers, returned, chunker, settings, db, watch, attempts, failed, call>>

\* lines 37-40 and 46-47: the configured provider's initializer
TryPrimary ==
    /\ phase = "TRY_PRIMARY"
    /\ \E outcome \in InitOutcomes :
        IF settings.LLM_PROVIDER = "azure"
        THEN LET r == initialize_azure_openai(settings, llm, outcome)
             IN  /\ llm' = r.llm
                 /\ attempts' = Append(attempts, "azure")
                 /\ failed' = IF r.failed THEN failed \cup {"azure"} ELSE failed
                 /\ phase' = IF r.raised \/ r.llm = None
                             THEN "TRY_SECONDARY"
                             ELSE Concluded(r.llm)
        ELSE LET r == initialize_openai(settings, llm, outcome)
             IN  /\ llm' = r.llm
                 /\ attempts' = Append(attempts, "openai")
                 /\ failed' = IF r.failed THEN failed \cup {"openai"} ELSE failed
                 /\ phase' = Concluded(r.llm)
    /\ UNCHANGED <<store, collections, created, callers, returned, chunker, settings, db, watch, call>>

\* lines 40-45: the fall back to OpenAI after Azure returned without an llm
\* or raised
TrySecondary ==
    /\ phase = "TRY_SECONDARY"
    /\ \E outcome \in InitOutcomes :
        LET r == initialize_openai(settings, llm, outcome)
        IN  /\ llm' = r.llm
            /\ attempts' = Append(attempts, "openai")
            /\ failed' = IF r.failed THEN failed \cup {"openai"} ELSE failed
            /\ phase' = Concluded(r.llm)
    /\ UNCHANGED <<store, collections, created, callers, returned, chunker, settings, db, watch, call>>

(***************************************************************************)
(* RAGGenerator: serving.                                                  *)
(***************************************************************************)
\* What the model returns when the invocation does not raise.
Answer == <<"The", " ", "answer", ".">>
NotAvailable ==
    <<"Error", ":", " ", "Language", " ", "model", " ", "not", " ", "available", ".">>
NoInformation ==
    <<"I", " ", "couldn't", " ", "find", " ", "any", " ", "relevant", " ", "information", ".">>
\* f"Error generating response: {str(e)}"
ErrorGenerating(e) == <<"Error", " ", "generating", " ", "response", ":", " ">> \o e
\* self.llm.invoke(prompt): it raises an exception whose str() is text, or
\* returns a message whose content is text
Raises(text) == [raises |-> TRUE, text |-> text]
Returns(text) == [raises |-> FALSE, text |-> text]
InvocationError == <<"Connection", " ", "error", ".">>

\* lines 116-144: the text call_llm returns, and how often it invoked the model
call_llm(cur_llm, invocation) ==
    IF cur_llm = None
    THEN [text |-> NotAvailable, invoked |-> 0, raised |-> FALSE]
    ELSE IF invocation.raises
         THEN [text |-> ErrorGenerating(invocation.text), invoked |-> 1, raised |-> FALSE]
         ELSE [text |-> invocation.text, invoked |-> 1, raised |-> FALSE]

\* a variant of line 212 that tests `context is None`, which the string
\* retrieve_for_rag returns never is
NoContextIsNone(context) == FALSE

\* line 212: `if not context`
NoContext(context) == context = <<>>

\* lines 171-295.  retrieval is what retrieve_for_rag returned; a metrics dict
\* is a record whose fields are the keys it has, measured times being
\* "measured".
generate_response(cur_llm, retrieval, invocation) ==
    IF cur_llm = None
    THEN [answer |-> NotAvailable, context |-> <<>>, documents |-> <<>>,
          metrics |-> [error |-> "LLM not initialized"],
          invoked |-> 0, raised |-> FALSE]
    ELSE IF retrieval.raised
    THEN [answer |-> <<"An", " ", "error", " ", "occurred", ".">>,
          context |-> <<>>, documents |-> <<>>,
          metrics |-> [total_time_seconds |-> "measured", error |-> "retrieval"],
          invoked |-> 0, raised |-> FALSE]
    ELSE IF NoContext(retrieval.context)
    THEN [answer |-> NoInformation, context |-> <<>>, documents |-> <<>>,
          metrics |-> [total_time_seconds |-> "measured",
                       retrieval_time_seconds |-> "measured",
                       generation_time_seconds |-> "0",
                       total_documents |-> 0],
          invoked |-> 0, raised |-> FALSE]
    ELSE LET response == call_llm(cur_llm, invocation)
         IN  IF response.raised
             THEN [answer |-> ErrorGenerating(invocation.text), context |-> retrieval.context,
                   documents |-> retrieval.documents,
                   metrics |-> [total_time_seconds |-> "measured",
                                retrieval_time_seconds |-> "measured",
                                error |-> "invocation"],
                   invoked |-> response.invoked, raised |-> FALSE]
             ELSE [answer |-> response.text, context |-> retrieval.context,
                   documents |-> retrieval.documents,
                   metrics |-> [total_time_seconds |-> "measured",
                                retrieval_time_seconds |-> "measured",
                                generation_time_seconds |-> "measured",
                                total_documents |-> Len(retrieval.documents)],
                   invoked |-> response.invoked, raised |-> FALSE]

(***************************************************************************)
(* Text.  A str that the code scans is a sequence of tokens: punctuation   *)
(* characters, the code fence, white space and words.                      *)
(***************************************************************************)
DQ == "\""
SQ == "'"
FENCE == "[fence]"   \* three backquotes
WhiteSpace == {" ", "\n"}

StartsWith(t, p) == Len(t) >= Len(p) /\ SubSeq(t, 1, Len(p)) = p

\* str.find on token sequences, 1-based; 0 when p does not occur
Find(t, p) ==
    LET at == {i \in 1..(Len(t) - Len(p) + 1) : SubSeq(t, i, i + Len(p) - 1) = p}
    IN  IF at = {} THEN 0 ELSE CHOOSE i \in at : \A j \in at : i <= j

Contains(t, p) == Find(t, p) # 0

\* str.split(p)
RECURSIVE split(_, _)
split(t, p) ==
    LET i == Find(t, p)
    IN  IF i = 0 THEN <<t>>
        ELSE <<SubSeq(t, 1, i - 1)>> \o split(SubSeq(t, i + Len(p), Len(t)), p)

\* str.strip(chars); chars is white space when not given
StripChars(t, chars) ==
    LET keep == {i \in DOMAIN t : t[i] \notin chars}
    IN  IF keep = {} THEN <<>>
        ELSE SubSeq(t, CHOOSE i \in keep : \A j \in keep : i <= j,
                       CHOOSE i \in keep : \A j \in keep : i >= j)

strip(t) == StripChars(t, WhiteSpace)

(***************************************************************************)
(* json.loads, for the JSON this model's texts can hold: objects, strings, *)
(* null and the empty array.  A parsed value is [type, content]; an object *)
(* is a dict in key order, a sequence of [key, value] records.             *)
(***************************************************************************)
JsonFail == [ok |-> FALSE, value |-> [type |-> "none", content |-> <<>>], next |-> 0]
JsonOk(type, content, next) ==
    [ok |-> TRUE, value |-> [type |-> type, content |-> content], next |-> next]
Str(tokens) == [type |-> "string", content |-> tokens]

SkipWs(t, i) ==
    LET rest == {j \in i..Len(t) : t[j] \notin WhiteSpace}
    IN  IF rest = {} THEN Len(t) + 1 ELSE CHOOSE j \in rest : \A k \in rest : j <= k

\* dict[key] = value on a dict in key order
DictPut(d, key, value) ==
    IF \E i \in DOMAIN d : d[i].key = key
    THEN [i \in DOMAIN d |-> IF d[i].key = key THEN [key |-> key, value |-> value] ELSE d[i]]
    ELSE Append(d, [key |-> key, value |-> value])

\* a string literal at t[i]: no raw line break inside it
JsonString(t, i) ==
    LET closing == {j \in (i + 1)..Len(t) : t[j] = DQ}
    IN  IF i > Len(t) \/ t[i] # DQ \/ closing = {} THEN JsonFail
        ELSE LET j == CHOOSE j \in closing : \A k \in closing : j <= k
             IN  IF \E k \in (i + 1)..(j - 1) : t[k] = "\n" THEN JsonFail
                 ELSE JsonOk("string", SubSeq(t, i + 1, j - 1), j + 1)

RECURSIVE JsonValue(_, _)
RECURSIVE JsonMembers(_, _, _)

\* the members of an object from t[i] on, up to its closing brace
JsonMembers(t, i, acc) ==
    LET k == JsonString(t, SkipWs(t, i))
        colon == SkipWs(t, k.next)
        v == JsonValue(t, SkipWs(t, colon + 1))
        e == SkipWs(t, v.next)
    IN  IF ~k.ok \/ colon > Len(t) THEN JsonFail
        ELSE IF t[colon] # ":" THEN JsonFail
        ELSE IF ~v.ok \/ e > Len(t) THEN JsonFail
        ELSE IF t[e] = "," THEN JsonMembers(t, e + 1, DictPut(acc, k.value.content, v.value))
        ELSE IF t[e] = "}"
             THEN JsonOk("object", DictPut(acc, k.value.content, v.value), e + 1)
             ELSE JsonFail

JsonValue(t, i) ==
    IF i > Len(t) THEN JsonFail
    ELSE CASE t[i] = DQ -> JsonString(t, i)
           [] t[i] = "null" -> JsonOk("null", <<>>, i + 1)
           [] t[i] = "[" ->
                LET e == SkipWs(t, i + 1)
                IN  IF e <= Len(t) /\ t[e] = "]" THEN JsonOk("array", <<>>, e + 1) ELSE JsonFail
           [] t[i] = "{" ->
                LET e == SkipWs(t, i + 1)
                IN  IF e <= Len(t) /\ t[e] = "}" THEN JsonOk("object", <<>>, e + 1)
                    ELSE JsonMembers(t, i + 1, <<>>)
           [] OTHER -> JsonFail

\* json.loads(text): ok is FALSE where it raises JSONDecodeError
json_loads(t) ==
    LET v == JsonValue(t, SkipWs(t, 1))
    IN  IF v.ok /\ SkipWs(t, v.next) = Len(t) + 1 THEN v ELSE JsonFail

(***************************************************************************)
(* StructuredDataExtractor (services/structured_extraction.py).            *)
(* A schema definition is its field names in dict order.                   *)
(***************************************************************************)
\* a variant of lines 126-141 whose value_part is only stripped of white
\* space, not of the colon (line 134)
FallbackFieldKeepColon(data, result, field_name) ==
    LET dq == <<DQ, field_name, DQ>>
        sq == <<SQ, field_name, SQ>>
    IN  IF ~(Contains(result, dq) \/ Contains(result, sq)) THEN data
        ELSE LET first == split(result, dq)
                 parts == IF Len(first) < 2 THEN split(result, sq) ELSE first
             IN  IF Len(parts) < 2 THEN data
                 ELSE LET value_part == strip(parts[2])
                      IN  IF value_part = <<>> \/ value_part[1] \notin {DQ, SQ} THEN data
                          ELSE LET end_quote == value_part[1]
                                   end_idx == Find(Tail(value_part), <<end_quote>>)
                               IN  IF end_idx > 0
                                   THEN DictPut(data, <<field_name>>,
                                                Str(SubSeq(value_part, 2, end_idx)))
                                   ELSE data

\* lines 126-141: one schema field of the tolerant scan; data is the dict
\* built so far
FallbackField(data, result, field_name) ==
    LET dq == <<DQ, field_name, DQ>>
        sq == <<SQ, field_name, SQ>>
    IN  IF ~(Contains(result, dq) \/ Contains(result, sq)) THEN data
        ELSE LET first == split(result, dq)
                 parts == IF Len(first) < 2 THEN split(result, sq) ELSE first
             IN  IF Len(parts) < 2 THEN data
                 ELSE LET value_part == strip(StripChars(strip(parts[2]), {":"}))
                      IN  IF value_part = <<>> \/ value_part[1] \notin {DQ, SQ} THEN data
                          ELSE LET end_quote == value_part[1]
                                   end_idx == Find(Tail(value_part), <<end_quote>>)
                               IN  IF end_idx > 0
                                   THEN DictPut(data, <<field_name>>,
                                                Str(SubSeq(value_part, 2, end_idx)))
                                   ELSE data

\* lines 117-146
RECURSIVE FallbackFields(_, _, _)
FallbackFields(data, result, fields) ==
    IF fields = <<>> THEN data
    ELSE FallbackFields(FallbackField(data, result, Head(fields)), result, Tail(fields))

fallback_extraction_with_pydantic(result, schema_definition) ==
    FallbackFields(<<>>, result, schema_definition)

\* lines 95-105: the code fence taken off and the text stripped
Unfenced(result) ==
    LET inner(opening) ==
            LET after == split(result, opening)[2]
            IN  IF Contains(after, <<FENCE>>) THEN split(after, <<FENCE>>)[1] ELSE after
    IN  strip(IF StartsWith(result, <<FENCE, "json">>) THEN inner(<<FENCE, "json">>)
              ELSE IF StartsWith(result, <<FENCE>>) THEN inner(<<FENCE>>)
              ELSE result)

\* lines 71-115.  format_raises: the custom template names a placeholder
\* that str.format cannot fill.
extract_data_using_llm(schema_definition, format_raises, cur_llm, invocation) ==
    IF format_raises
    THEN [raised |-> TRUE, data |-> [type |-> "none", content |-> <<>>], invoked |-> 0]
    ELSE LET response == call_llm(cur_llm, invocation)
             result == Unfenced(response.text)
             parsed == json_loads(result)
         IN  [raised |-> FALSE,
              data |-> IF parsed.ok THEN parsed.value
                       ELSE [type |-> "object",
                             content |-> fallback_extraction_with_pydantic(result, schema_definition)],
              invoked |-> response.invoked]

\* the relational store's rows: documents and the number of chunks of each
DbDocuments == [docA |-> 2, docE |-> 0]

\* a variant of line 191 that lets a document without chunks through
HasNoChunksNever(document_id) == FALSE

\* line 191: `if not chunks`
HasNoChunks(document_id) == DbDocuments[document_id] = 0

\* a variant of lines 213-226 whose pattern branch is not there
UsesLlmUnlessPattern(extraction_strategy) == extraction_strategy \in {"auto", "template"}

\* lines 213-226: the strategies that call _extract_data_using_llm
UsesLlm(extraction_strategy) == extraction_strategy \in {"auto", "template", "pattern"}

\* a variant of lines 259-275 that lets the exception out
Reraised(error, invoked) ==
    [data |-> <<>>, fields |-> <<>>, invoked |-> invoked, raised |-> TRUE,
     extraction_metrics |-> [status |-> "error", error |-> error]]

\* lines 259-275: the result of the except branch
ErrorResult(error, invoked) ==
    [data |-> <<>>, fields |-> <<>>, invoked |-> invoked, raised |-> FALSE,
     extraction_metrics |-> [status |-> "error", error |-> error]]

\* lines 148-275
extract_structured_data(document_id, schema_definition, extraction_strategy, format_raises, cur_llm, invocation) ==
    IF document_id \notin DOMAIN DbDocuments
    THEN [data |-> <<>>, fields |-> <<>>, invoked |-> 0, raised |-> FALSE,
          extraction_metrics |-> [status |-> "error", error |-> "Document not found"]]
    ELSE IF HasNoChunks(document_id)
    THEN [data |-> <<>>, fields |-> <<>>, invoked |-> 0, raised |-> FALSE,
          extraction_metrics |-> [status |-> "error", error |-> "No document chunks found"]]
    ELSE LET extraction == extract_data_using_llm(schema_definition, format_raises,
                                                  cur_llm, invocation)
         IN  IF ~UsesLlm(extraction_strategy)
             THEN [data |-> <<>>, fields |-> <<>>, invoked |-> 0, raised |-> FALSE,
                   extraction_metrics |-> [status |-> "success",
                                           extraction_time_ms |-> "measured",
                                           extraction_strategy |-> extraction_strategy]]
             ELSE IF extraction.raised \/ extraction.data.type # "object"
             THEN ErrorResult("exception", extraction.invoked)
             ELSE [data |-> extraction.data.content,
                   fields |-> [i \in DOMAIN extraction.data.content |->
                                  [name |-> extraction.data.content[i].key,
                                   value |-> extraction.data.content[i].value,
                                   confidence |-> "1.0",
                                   source_text |-> None]],
                   invoked |-> extraction.invoked, raised |-> FALSE,
                   extraction_metrics |-> [status |-> "success",
                                           extraction_time_ms |-> "measured",
                                           extraction_strategy |-> extraction_strategy]]

(***************************************************************************)
(* ChunkingService (services/chunking_service.py).  A text is a sequence   *)
(* of units (characters for the recursive splitter, tokens for the token   *)
(* and sentence splitters); lengths are counted in units.                  *)
(***************************************************************************)
Min(a, b) == IF a < b THEN a ELSE b

\* chunk_size of a langchain TextSplitter built without one
DefaultChunkSize == 4000
\* line 147: the overlap the sentence splitter gets at most
SentenceOverlapCap == 50

\* the constructor of a langchain TextSplitter: it refuses an overlap larger
\* than its chunk_size and nothing else.  window is what the splitter cuts
\* by: chunk_size, or tokens_per_chunk for the sentence splitter.
TextSplitter(kind, chunk_size, window, chunk_overlap) ==
    IF chunk_overlap > chunk_size
    THEN [raised |-> TRUE, kind |-> kind, window |-> window, overlap |-> chunk_overlap]
    ELSE [raised |-> FALSE, kind |-> kind, window |-> window, overlap |-> chunk_overlap]

\* a variant of lines 161-168 that builds the fallback without overlap
UnknownStrategySplitterNoOverlap(config) ==
    TextSplitter("recursive", config.chunk_size, config.chunk_size, 0)

\* lines 161-168: the splitter of an unknown strategy
UnknownStrategySplitter(config) ==
    TextSplitter("recursive", config.chunk_size, config.chunk_size, config.chunk_overlap)

\* lines 123-168: _init_splitter
init_splitter(config) ==
    CASE config.strategy = "recursive" ->
            TextSplitter("recursive", config.chunk_size, config.chunk_size, config.chunk_overlap)
      [] config.strategy = "token" ->
            TextSplitter("token", config.chunk_size, config.chunk_size, config.chunk_overlap)
      [] config.strategy = "sentence" ->
            TextSplitter("sentence", DefaultChunkSize, config.chunk_size \div 4,
                         Min(config.chunk_overlap, SentenceOverlapCap))
      [] config.strategy = "semantic" ->
            TextSplitter("recursive", config.chunk_size, config.chunk_size, config.chunk_overlap)
      [] OTHER -> UnknownStrategySplitter(config)

\* lines 111-121: ChunkingService(config); the constructor's exception is
\* the splitter's
ChunkingService(config) ==
    LET text_splitter == init_splitter(config)
    IN  [built |-> TRUE, raised |-> text_splitter.raised, config |-> config,
         text_splitter |-> text_splitter]

\* RecursiveCharacterTextSplitter on units: units are gathered into a chunk
\* until the next one would pass the window; the chunk is emitted and its
\* tail of at most overlap units starts the next chunk
RECURSIVE KeepTail(_, _, _)
KeepTail(current, window, overlap) ==
    IF Len(current) > overlap \/ (Len(current) + 1 > window /\ Len(current) > 0)
    THEN KeepTail(Tail(current), window, overlap)
    ELSE current

RECURSIVE MergeSplits(_, _, _, _)
MergeSplits(units, current, window, overlap) ==
    IF units = <<>> THEN (IF current = <<>> THEN <<>> ELSE <<current>>)
    ELSE IF Len(current) + 1 > window /\ current # <<>>
         THEN <<current>> \o
              MergeSplits(Tail(units), Append(KeepTail(current, window, overlap), Head(units)),
                          window, overlap)
         ELSE MergeSplits(Tail(units), Append(current, Head(units)), window, overlap)

\* split_text_on_tokens of the token and sentence splitters: windows that
\* start window - overlap units apart, up to the end of the text
RECURSIVE TokenWindows(_, _, _, _)
TokenWindows(text, start, window, overlap) ==
    LET last == Min(start + window - 1, Len(text))
    IN  IF start > Len(text) THEN <<>>
        ELSE IF last = Len(text) THEN <<SubSeq(text, start, last)>>
        ELSE <<SubSeq(text, start, last)>> \o
             TokenWindows(text, start + window - overlap, window, overlap)

\* self._text_splitter.split_text(text).  A token splitter whose windows do
\* not advance never gets through its text: the call does not return a
\* result (failed).
SplitterSplit(text_splitter, text) ==
    IF text_splitter.kind = "recursive"
    THEN [failed |-> FALSE,
          chunks |-> MergeSplits(text, <<>>, text_splitter.window, text_splitter.overlap)]
    ELSE IF text_splitter.window - text_splitter.overlap <= 0
         THEN [failed |-> TRUE, chunks |-> <<>>]
         ELSE [failed |-> FALSE,
               chunks |-> TokenWindows(text, 1, text_splitter.window, text_splitter.overlap)]

\* what the SemanticChunker makes of a text when it works: one chunk per
\* sentence, here per unit
SemanticSplit(text) == [i \in DOMAIN text |-> <<text[i]>>]

\* lines 191-212: split_text.  semantic says what the semantic chunker does
\* when it is asked: it cannot be built (lines 183-188), its split raises,
\* or it splits.
split_text(service, text, semantic) ==
    IF text = <<>> \/ Len(strip(text)) < service.config.min_chunk_size
    THEN [failed |-> FALSE,
          chunks |-> IF text # <<>> /\ strip(text) # <<>> THEN <<text>> ELSE <<>>]
    ELSE IF service.config.strategy = "semantic" /\ semantic = "splits"
    THEN [failed |-> FALSE, chunks |-> SemanticSplit(text)]
    ELSE SplitterSplit(service.text_splitter, text)

(***************************************************************************)
(* Parsers (services/parsers).  A MIME type is [major, minor], the two     *)
(* sides of its slash.  A file is what reading it yields: whether it can   *)
(* be read at all (opened, decoded, fetched) and its pages (PDF), its      *)
(* paragraphs (DOCX) or its lines (text, CSV, JSON, OCR output, converted  *)
(* web page), each a sequence of characters.  NUL is the character \x00.   *)
(***************************************************************************)
NUL == "NUL"
Mime(major, minor) == [major |-> major, minor |-> minor]
PDF == Mime("application", "pdf")
DOCX == Mime("application", "vnd.openxmlformats-officedocument.wordprocessingml.document")
JSON == Mime("application", "json")
HTML == Mime("text", "html")

\* a variant of factory.py lines 44-46 that hands every other type to the
\* text parser
get_parser_or_text(mime_type) ==
    IF mime_type \in {PDF, DOCX} THEN "document_parser"
    ELSE IF mime_type.major = "image" THEN "image_parser"
    ELSE "text_parser"

\* factory.py lines 14-46: the parser of a MIME type, None when there is none
get_parser(mime_type) ==
    IF mime_type \in {PDF, DOCX} THEN "document_parser"
    ELSE IF mime_type.major = "text" \/ mime_type = JSON THEN "text_parser"
    ELSE IF mime_type.major = "image" THEN "image_parser"
    ELSE IF mime_type = HTML \/ mime_type = Mime("application", "web") THEN "web_parser"
    ELSE None

\* langchain's Document(page_content=..., metadata=...)
Document(page_content, metadata) == [page_content |-> page_content, metadata |-> metadata]

\* d.update(e) on a copy of d
Update(d, e) == [k \in DOMAIN d \cup DOMAIN e |-> IF k \in DOMAIN e THEN e[k] ELSE d[k]]

\* text.replace('\x00', '')
RemoveNul(text) == SelectSeq(text, LAMBDA c : c # NUL)

\* "\n".join(parts)
RECURSIVE Join(_)
Join(parts) ==
    IF parts = <<>> THEN <<>>
    ELSE IF Len(parts) = 1 THEN parts[1]
    ELSE parts[1] \o <<"\n">> \o Join(Tail(parts))

\* file.read() of a file given by its lines
ReadAll(file) == Join(file.pages)

\* document_parser.py lines 14-76: one document per page that is not blank
\* once its NUL characters are gone; every exception gives []
parse_pdf(file, metadata) ==
    IF ~file.readable THEN <<>>
    ELSE LET pdf_metadata == Update([format |-> "pdf", page_count |-> Len(file.pages)], metadata)
             text(page_num) == RemoveNul(file.pages[page_num])
             kept == SelectSeq([i \in DOMAIN file.pages |-> i], LAMBDA i : strip(text(i)) # <<>>)
         IN  [k \in DOMAIN kept |->
                Document(text(kept[k]), Update(pdf_metadata, [page_num |-> kept[k]]))]

\* document_parser.py lines 78-128: one document of the paragraphs that are
\* not blank, whatever is left
parse_docx(file, metadata) ==
    IF ~file.readable THEN <<>>
    ELSE LET full_text == Join(SelectSeq(file.pages, LAMBDA p : strip(p) # <<>>))
         IN  <<Document(full_text, Update([format |-> "docx"], metadata))>>

\* document_parser.py lines 130-150
document_parser_parse(file, metadata) ==
    LET file_format == metadata.mime_type
    IN  IF file_format = PDF \/ file_format.minor = "pdf" THEN parse_pdf(file, metadata)
        ELSE IF file_format = DOCX THEN parse_docx(file, metadata)
        ELSE <<>>

\* text_parser.py lines 13-49: one document of the decoded text as it is
parse_text(file, metadata) ==
    IF ~file.readable THEN <<>>
    ELSE <<Document(ReadAll(file), Update([format |-> "text"], metadata))>>

\* json.dumps of a parsed value: a NUL inside a string is written as an escape
RECURSIVE json_dumps(_)
RECURSIVE json_dumps_members(_)
json_dumps_members(members) ==
    IF members = <<>> THEN <<>>
    ELSE <<"\n", DQ>> \o members[1].key \o <<DQ, ":", " ">> \o json_dumps(members[1].value) \o
         (IF Len(members) = 1 THEN <<"\n">> ELSE <<",">> \o json_dumps_members(Tail(members)))
json_dumps(value) ==
    CASE value.type = "string" ->
            <<DQ>> \o [i \in DOMAIN value.content |->
                          IF value.content[i] = NUL THEN "\\u0000" ELSE value.content[i]] \o <<DQ>>
      [] value.type = "null" -> <<"null">>
      [] value.type = "array" -> <<"[", "]">>
      [] value.type = "object" ->
            IF value.content = <<>> THEN <<"{", "}">>
            ELSE <<"{">> \o json_dumps_members(value.content) \o <<"}">>

\* text_parser.py lines 51-90: the parsed JSON written out again; a file
\* that is not JSON gives []
parse_json(file, metadata) ==
    LET json_data == json_loads(ReadAll(file))
    IN  IF ~file.readable \/ ~json_data.ok THEN <<>>
        ELSE <<Document(json_dumps(json_data.value), Update([format |-> "json"], metadata))>>

\* text_parser.py lines 92-136: the rows joined by line breaks, their cells
\* by commas, which gives the lines of the file back
parse_csv(file, metadata) ==
    IF ~file.readable THEN <<>>
    ELSE <<Document(ReadAll(file),
                    Update([format |-> "csv", row_count |-> Len(file.pages)], metadata))>>

\* text_parser.py lines 138-161
text_parser_parse(file, metadata) ==
    LET file_format == metadata.mime_type
    IN  IF file_format = JSON THEN parse_json(file, metadata)
        ELSE IF file_format = Mime("text", "csv") THEN parse_csv(file, metadata)
        ELSE parse_text(file, metadata)

\* image_parser.py lines 21-84: the OCR text, unless it is blank
parse_image(file, metadata) ==
    IF ~file.readable \/ strip(ReadAll(file)) = <<>> THEN <<>>
    ELSE <<Document(ReadAll(file), Update([format |-> "image"], metadata))>>

Max(a, b) == IF a > b THEN a ELSE b

\* text.rfind(c, start, end): 0-based, -1 when c is not in text[start:end]
rfind(text, c, start, end) ==
    LET at == {i \in start..(Min(end, Len(text)) - 1) : text[i + 1] = c}
    IN  IF at = {} THEN -1 ELSE CHOOSE i \in at : \A j \in at : i >= j

\* text[start:end]
Slice(text, start, end) == SubSeq(text, start + 1, Min(end, Len(text)))

\* web_parser.py line 99: `start = max(split_point, start + chunk_size - overlap)`
NextStart(split_point, start, chunk_size, overlap) ==
    Max(split_point, start + chunk_size - overlap)

\* web_parser.py lines 81-103: the loop from start on; a chunk is
\* [start, end, text] with text = text[start:end].  The loop whose start
\* does not advance never ends (diverges).
RECURSIVE SplitLoop(_, _, _, _)
SplitLoop(text, start, chunk_size, overlap) ==
    LET end == start + chunk_size
        newline == rfind(text, "\n", start, end)
        space == IF newline = -1 \/ newline <= start THEN rfind(text, " ", start, end)
                 ELSE newline
        split_point == IF space = -1 \/ space <= start THEN end ELSE space
        next == NextStart(split_point, start, chunk_size, overlap)
        rest == SplitLoop(text, next, chunk_size, overlap)
    IN  IF start >= Len(text) THEN [diverges |-> FALSE, chunks |-> <<>>]
        ELSE IF end >= Len(text)
        THEN [diverges |-> FALSE,
              chunks |-> <<[start |-> start, end |-> Len(text),
                            text |-> Slice(text, start, Len(text))]>>]
        ELSE IF next <= start THEN [diverges |-> TRUE, chunks |-> <<>>]
        ELSE [diverges |-> rest.diverges,
              chunks |-> <<[start |-> start, end |-> split_point,
                            text |-> Slice(text, start, split_point)]>> \o rest.chunks]

\* web_parser.py lines 73-105: _split_text
web_split_text(text, chunk_size, overlap) ==
    IF Len(text) <= chunk_size
    THEN [diverges |-> FALSE,
          chunks |-> <<[start |-> 0, end |-> Len(text), text |-> text]>>]
    ELSE SplitLoop(text, 0, chunk_size, overlap)

\* web_parser.py lines 34-71: one document per chunk of the converted page.
\* The code splits with chunk_size=3000 and overlap=200 (line 51).
parse_html(text, url, chunk_size, overlap) ==
    LET chunks == web_split_text(text, chunk_size, overlap).chunks
    IN  [i \in DOMAIN chunks |->
            Document(chunks[i].text,
                     [source |-> "web", url |-> url, title |-> url.base,
                      chunk |-> i - 1, total_chunks |-> Len(chunks)])]

\* web_parser.py lines 107-129: a page that cannot be fetched, or is empty,
\* gives []
web_parser_parse(page, url, metadata, chunk_size, overlap) ==
    IF ~page.readable \/ ReadAll(page) = <<>> THEN <<>>
    ELSE LET documents == parse_html(ReadAll(page), url, chunk_size, overlap)
         IN  [i \in DOMAIN documents |->
                Document(documents[i].page_content, Update(documents[i].metadata, metadata))]

\* parser.parse(file, metadata) for the parser get_parser returned
parser_parse(parser, file, metadata) ==
    CASE parser = "document_parser" -> document_parser_parse(file, metadata)
      [] parser = "text_parser" -> text_parser_parse(file, metadata)
      [] parser = "image_parser" -> parse_image(file, metadata)

(***************************************************************************)
(* Tabular data (services/connectors/database_connector.py).  A DataFrame  *)
(* is its number of rows and its columns in order, each with the rows in   *)
(* which it is null; the value of row i is one of a few names.  A text is  *)
(* a sequence of tokens: a header, one token per row, names and values.    *)
(***************************************************************************)
FullTableRows == 50   \* line 190: tables of at most so many rows get the full view
BatchSize == 20       \* line 205
SampleSize == 3       \* line 226

ValueNames == <<"v1", "v2", "v3", "v4">>
ValueAt(i) == ValueNames[((i - 1) % Len(ValueNames)) + 1]

\* df[column].dropna(): the values of the rows in which the column is not null
dropna(df, column) ==
    LET rows == SelectSeq([i \in 1..df.rows |-> i], LAMBDA i : i \notin column.nulls)
    IN  [k \in DOMAIN rows |-> ValueAt(rows[k])]

\* Series.sample(n): n values drawn without replacement, which pandas
\* refuses when n is larger than the population; pick says which are drawn
sample(population, n, pick) ==
    IF n > Len(population) THEN [raised |-> TRUE, values |-> <<>>]
    ELSE [raised |-> FALSE,
          values |-> IF pick = "head" THEN SubSeq(population, 1, n)
                     ELSE SubSeq(population, Len(population) - n + 1, Len(population))]

\* df.iloc[i:j].to_string(index=False): the header line and a line per row
to_string(df, i, j) == <<"header">> \o [k \in 1..(Min(j, df.rows) - i) |-> "row"]

\* ", ".join(values)
RECURSIVE CommaJoin(_)
CommaJoin(values) ==
    IF values = <<>> THEN <<>>
    ELSE IF Len(values) = 1 THEN values
    ELSE <<values[1], ",">> \o CommaJoin(Tail(values))

\* lines 224-228: the lines of the column description; raised when a
\* column's sample raises
RECURSIVE ColumnLines(_, _, _)
ColumnLines(df, columns, pick) ==
    IF columns = <<>> THEN [raised |-> FALSE, lines |-> <<>>]
    ELSE LET drawn == sample(dropna(df, Head(columns)), Min(SampleSize, df.rows), pick)
             rest == ColumnLines(df, Tail(columns), pick)
         IN  IF drawn.raised \/ rest.raised THEN [raised |-> TRUE, lines |-> <<>>]
             ELSE [raised |-> FALSE,
                   lines |-> <<[column |-> Head(columns).name, sample_values |-> drawn.values]>>
                             \o rest.lines]

RECURSIVE ColumnText(_)
ColumnText(lines) ==
    IF lines = <<>> THEN <<>>
    ELSE <<"-", Head(lines).column, ":">> \o CommaJoin(Head(lines).sample_values) \o <<"\n">>
         \o ColumnText(Tail(lines))

\* lines 205-221: one document per batch of BatchSize rows, from row i on
RECURSIVE Batches20(_, _, _)
Batches20(df, i, source_info) ==
    IF i >= df.rows THEN <<>>
    ELSE <<Document(to_string(df, i, i + BatchSize),
                    Update([source_type |-> "database", representation |-> "batch",
                            row_range |-> <<i, Min(i + BatchSize - 1, df.rows - 1)>>],
                           source_info))>>
         \o Batches20(df, i + BatchSize, source_info)

\* chunking_service.py lines 214-235 for one document: the chunks of the
\* service's splitter, each with the document's metadata
split_documents(service, document) ==
    LET chunks == SplitterSplit(service.text_splitter, document.page_content).chunks
    IN  [i \in DOMAIN chunks |-> Document(chunks[i], document.metadata)]

RECURSIVE SplitEach(_, _)
SplitEach(service, documents) ==
    IF documents = <<>> THEN <<>>
    ELSE split_documents(service, Head(documents)) \o SplitEach(service, Tail(documents))

\* lines 172-246: data_to_documents.  column_samples is what line 226 drew
\* for each column.
data_to_documents(df, source_info, service, pick) ==
    LET full == IF df.rows <= FullTableRows
                THEN <<Document(to_string(df, 0, df.rows),
                                Update([source_type |-> "database",
                                        representation |-> "full_table"], source_info))>>
                ELSE <<>>
        described == ColumnLines(df, df.columns, pick)
        columns == Document(<<"Table columns:", "\n">> \o ColumnText(described.lines),
                            Update([source_type |-> "database", representation |-> "columns"],
                                   source_info))
    IN  IF described.raised
        THEN [raised |-> TRUE, documents |-> <<>>, column_samples |-> <<>>]
        ELSE [raised |-> FALSE,
              documents |-> SplitEach(service, full \o Batches20(df, 0, source_info) \o <<columns>>),
              column_samples |-> described.lines]

(***************************************************************************)
(* Requests.                                                               *)
(***************************************************************************)
\* a request names each collection once
RequestCollections == {"documents", "images", "documents_collection"}
CollectionLists ==
    {names \in SeqsUpTo(RequestCollections, MaxCollections) :
        \A i, j \in DOMAIN names : names[i] = names[j] => i = j}
CallerFilters ==
    {NoFilter, [document_id |-> Eq("docC")], [filename |-> Eq("a.pdf")]}
\* (document_id, document_ids) as a request carries them
DocumentScopes ==
    { [document_id |-> "", document_ids |-> <<>>],
      [document_id |-> "docA", document_ids |-> <<>>],
      [document_id |-> "docA", document_ids |-> <<"docB", "docC">>],
      [document_id |-> "", document_ids |-> <<"docZ">>] }
\* ok: the search returns; raise: get_collection or the search raises
Outcomes == {"ok", "raise"}

Idle == [op |-> "none"]

RetrievalCall(entry, request, args, outcomes) ==
    [op |-> "retrieve",
     entry |-> entry,
     request |-> request,
     args |-> args,
     outcomes |-> outcomes,
     filter_after |-> CallerFilterAfter(args.filter_criteria, args.document_id,
                                        args.document_ids),
     result |-> retrieve_for_rag(args.collection_names, args.filter_criteria,
                                 args.document_id, args.document_ids, args.top_k,
                                 store, outcomes)]

\* the vector store after the get_collection calls of one retrieval
AfterRetrieval(names) ==
    LET touched == TouchCollections(store, collections, created, names)
    IN  /\ store' = touched.store
        /\ collections' = touched.collections
        /\ created' = touched.created

\* RAGRetriever.retrieve_for_rag (or hybrid_search, which forwards to it)
\* called inside the process, with or without a collection list
Retrieve ==
    \E names \in CollectionLists, filter \in CallerFilters,
       scope \in DocumentScopes, top_k \in 1..MaxTopK :
    \E outcomes \in [DOMAIN DefaultCollections(names) -> Outcomes] :
        LET args == [collection_names |-> names, filter_criteria |-> filter,
                     document_id |-> scope.document_id,
                     document_ids |-> scope.document_ids, top_k |-> top_k]
        IN  /\ call = Idle
            /\ call' = RetrievalCall("direct", args, args, outcomes)
            /\ AfterRetrieval(DefaultCollections(names))
            /\ UNCHANGED <<callers, returned, chunker, settings, db, watch, phase, llm, attempts, failed>>

\* api/endpoints/query.py lines 15-57: POST /retrieve.  A request without
\* collection_names hands settings.COLLECTIONS itself to the retriever, whose
\* loop then iterates the dict, that is, its keys; a request without top_k
\* (0 here) gets MAX_RETRIEVED_DOCUMENTS.
retrieve_documents ==
    \E names \in CollectionLists, filter \in CallerFilters,
       scope \in DocumentScopes, top_k \in 0..MaxTopK :
        LET collection_names == IF names = <<>> THEN DictKeys(COLLECTIONS) ELSE names
            request == [collection_names |-> names, filter_criteria |-> filter,
                        document_id |-> scope.document_id,
                        document_ids |-> scope.document_ids, top_k |-> top_k]
            args == [request EXCEPT
                        !.collection_names = collection_names,
                        !.top_k = IF top_k = 0 THEN MAX_RETRIEVED_DOCUMENTS ELSE top_k]
        IN  \E outcomes \in [DOMAIN collection_names -> Outcomes] :
                /\ call = Idle
                /\ call' = RetrievalCall("endpoint", request, args, outcomes)
                /\ AfterRetrieval(collection_names)
                /\ UNCHANGED <<callers, returned, chunker, settings, db, watch, phase, llm, attempts, failed>>

\* what a generation request carries: the endpoint's default collections
\* or the documents collection by name
GenerationCollections == {<<>>, <<"documents">>}
Invocations == {Raises(InvocationError), Returns(Answer)}

\* api/endpoints/query.py lines 60-103: POST /generate, served by the
\* generator singleton once its construction succeeded.  The retrieval runs
\* with top_k = MAX_RETRIEVED_DOCUMENTS (generator.py line 203).
generate_answer ==
    /\ phase = "SUCCESS"
    /\ call = Idle
    /\ \E names \in GenerationCollections, filter \in CallerFilters,
          scope \in DocumentScopes, invocation \in Invocations :
        LET collection_names == IF names = <<>> THEN DictKeys(COLLECTIONS) ELSE names
            request == [collection_names |-> names, filter_criteria |-> filter,
                        document_id |-> scope.document_id,
                        document_ids |-> scope.document_ids]
            args == [collection_names |-> collection_names, filter_criteria |-> filter,
                     document_id |-> scope.document_id,
                     document_ids |-> scope.document_ids,
                     top_k |-> MAX_RETRIEVED_DOCUMENTS]
        IN  \E outcomes \in [DOMAIN collection_names -> Outcomes] :
            LET retrieval == retrieve_for_rag(args.collection_names, args.filter_criteria,
                                              args.document_id, args.document_ids,
                                              args.top_k, store, outcomes)
            IN  /\ call' = [op |-> "generate", request |-> request, args |-> args,
                            outcomes |-> outcomes, invocation |-> invocation,
                            retrieval |-> retrieval,
                            result |-> generate_response(llm, retrieval, invocation)]
                /\ AfterRetrieval(collection_names)
    /\ UNCHANGED <<callers, returned, chunker, settings, db, watch, phase, llm, attempts, failed>>

\* what the model may answer to an extraction prompt
JsonTitle == <<"{", DQ, "title", DQ, ":", " ", DQ, "Hello", DQ, "}">>
ModelOutputs ==
    { JsonTitle,
      <<FENCE, "json", "\n">> \o JsonTitle \o <<"\n", FENCE>>,
      <<"title", ":", " ", DQ, "Hello", DQ>>,
      <<"Here", " ", DQ, "title", DQ, ":", " ", DQ, "Hello", DQ, ".">>,
      <<"{", SQ, "title", SQ, ":", " ", SQ, "Hello", SQ, "}">>,
      <<DQ, "title", DQ, ":", " ", DQ, "Hello", DQ, ",", " ",
        DQ, "author", DQ, ":", " ", DQ, "Ann", DQ>>,
      <<"[", "]">> }
SchemaDefinitions == {<<"title">>, <<"title", "author">>}
ExtractionStrategies == {"auto", "template", "pattern", "regex"}
ExtractionInvocations ==
    {Raises(InvocationError)} \cup {Returns(text) : text \in ModelOutputs}

\* api/endpoints/structured_extraction.py lines 13-68: POST /structured-extract
extract_structured ==
    /\ phase = "SUCCESS"
    /\ call = Idle
    /\ \E document_id \in {"docA", "docE", "docZ"}, schema \in SchemaDefinitions,
          strategy \in ExtractionStrategies, format_raises \in BOOLEAN,
          invocation \in ExtractionInvocations :
        call' = [op |-> "extract", document_id |-> document_id,
                 schema_definition |-> schema, extraction_strategy |-> strategy,
                 format_raises |-> format_raises, invocation |-> invocation,
                 result |-> extract_structured_data(document_id, schema, strategy,
                                                    format_raises, llm, invocation)]
    /\ UNCHANGED <<store, collections, created, callers, returned, chunker, settings, db, watch, phase, llm, attempts, failed>>

\* the caller takes the result; the service is ready for the next request
Return ==
    /\ call # Idle
    /\ call' = Idle
    /\ UNCHANGED <<store, collections, created, callers, returned, chunker, settings, db, watch, phase, llm, attempts, failed>>

(***************************************************************************)
(* Specifications.                                                         *)
(***************************************************************************)
\* VectorStore.__init__: `self.collections = {}`; nothing created yet and no
\* thread inside get_collection
NoHandles == [n \in {} |-> 0]
NeverCreated == [n \in CollectionUniverse |-> 0]
Callers == {"request", "watcher"}
NoChunker == [built |-> FALSE]
\* no document rows, no chunk rows; an empty watched directory and an empty
\* table of processed files
EmptyDb == [documents |-> <<>>, chunks |-> <<>>, drawn |-> 0]
NoWatch == [files |-> <<>>, table |-> <<>>, modified_files |-> <<>>, ingested |-> <<>>]
AllIdle == [t \in Callers |-> [at |-> "idle", name |-> "", calls |-> 0]]

NoSettings == [LLM_PROVIDER |-> "openai", OPENAI_API_KEY |-> FALSE, AZURE_OPENAI |-> FALSE]

\* The retrieval engine over a vector index.
Init ==
    /\ store \in {PopulatedStore, EmptyStore}
    /\ collections = NoHandles
    /\ created = NeverCreated
    /\ callers = AllIdle
    /\ returned = <<>>
    /\ chunker = NoChunker
    /\ settings = NoSettings
    /\ phase = "UNINITIALIZED"
    /\ llm = None
    /\ attempts = <<>>
    /\ failed = {}
    /\ call = Idle
    /\ db = EmptyDb
    /\ watch = NoWatch

Next ==
    \/ Retrieve
    \/ retrieve_documents
    \/ Return

Spec == Init /\ [][Next]_vars

\* The vector store used by the request thread and the file watcher thread.
RaceInit == Init

RaceNext ==
    \E t \in Callers :
        \/ EnterGetCollection(t)
        \/ ListCollections(t)
        \/ CreateCollection(t)
        \/ WrapCollection(t)
        \/ ReturnHandle(t)
        \/ Propagate(t)

RaceSpec == RaceInit /\ [][RaceNext]_vars

\* The vector store used by one thread, one get_collection after another.
SerialInit == Init

SerialNext ==
    \/ EnterGetCollection("request")
    \/ ListCollections("request")
    \/ CreateCollection("request")
    \/ WrapCollection("request")
    \/ ReturnHandle("request")

SerialSpec == SerialInit /\ [][SerialNext]_vars

\* The construction of the vector store under every embedding configuration.
EmbeddingSettings ==
    [EMBEDDING_PROVIDER : {"azure", "openai", "huggingface"},
     OPENAI_API_KEY : BOOLEAN, AZURE_OPENAI_API_KEY : BOOLEAN,
     AZURE_OPENAI_ENDPOINT : BOOLEAN, AZURE_EMBEDDING_DEPLOYMENT : BOOLEAN]

\* vector_store.py lines 16-19 and 228: `vector_store = VectorStore()`
ConstructVectorStore ==
    /\ call = Idle
    /\ \E outcome \in {"works", "constructor_raises", "test_raises"} :
           call' = [op |-> "construct", outcome |-> outcome,
                    result |-> get_embeddings(settings, outcome)]
    /\ UNCHANGED <<store, collections, created, callers, returned, chunker, settings, db, watch, phase, llm,
                   attempts, failed>>

EmbedInit ==
    /\ store = EmptyStore
    /\ collections = NoHandles
    /\ created = NeverCreated
    /\ callers = AllIdle
    /\ returned = <<>>
    /\ chunker = NoChunker
    /\ settings \in EmbeddingSettings
    /\ phase = "UNINITIALIZED"
    /\ llm = None
    /\ attempts = <<>>
    /\ failed = {}
    /\ call = Idle
    /\ db = EmptyDb
    /\ watch = NoWatch

EmbedNext == ConstructVectorStore

EmbedSpec == EmbedInit /\ [][EmbedNext]_vars

\* The chunking service under every configuration, and the texts it splits.
Strategies == {"recursive", "semantic", "token", "sentence", "paragraph"}
ChunkSizes == {2, 3, 8, 200}
ChunkOverlaps == {0, 1, 2, 3, 60}
ChunkingConfigs ==
    [strategy : Strategies, chunk_size : ChunkSizes, chunk_overlap : ChunkOverlaps,
     min_chunk_size : {1, 3}]
Texts ==
    { <<>>, <<" ">>, <<"a", "b">>, <<"a", "b", "c", "d", "e">>,
      <<"a", " ", "b", "\n", "c", "d">> }
SemanticOutcomes == {"unavailable", "raises", "splits"}

\* chunking_service.py lines 111-121: the service is built; when the
\* constructor raises there is no service
BuildChunkingService ==
    /\ ~chunker.built
    /\ \E config \in ChunkingConfigs : chunker' = ChunkingService(config)
    /\ UNCHANGED <<store, collections, created, callers, returned, settings, db, watch, phase, llm,
                   attempts, failed, call>>

\* chunking_service.py lines 191-212: split_text on the service built
split_text_call ==
    /\ chunker.built
    /\ ~chunker.raised
    /\ call = Idle
    /\ \E text \in Texts, semantic \in SemanticOutcomes :
           call' = [op |-> "split_text", text |-> text, semantic |-> semantic,
                    result |-> split_text(chunker, text, semantic)]
    /\ UNCHANGED <<store, collections, created, callers, returned, chunker, settings, db, watch,
                   phase, llm, attempts, failed>>

ChunkInit ==
    /\ store = EmptyStore
    /\ collections = NoHandles
    /\ created = NeverCreated
    /\ callers = AllIdle
    /\ returned = <<>>
    /\ chunker = NoChunker
    /\ settings = NoSettings
    /\ phase = "UNINITIALIZED"
    /\ llm = None
    /\ attempts = <<>>
    /\ failed = {}
    /\ call = Idle
    /\ db = EmptyDb
    /\ watch = NoWatch

ChunkNext ==
    \/ BuildChunkingService
    \/ split_text_call
    \/ Return

ChunkSpec == ChunkInit /\ [][ChunkNext]_vars

\* The parsers under every file they can be handed, and the web parser's
\* splitter under every short page text.
MaxPages == 2         \* pages, paragraphs or lines of a parsed file
MaxWebText == 6       \* characters of a page text handed to _split_text

ParserTexts ==
    { <<>>, <<" ">>, <<"a", NUL, "b">>, <<"a", " ", "b">>, <<NUL>>,
      <<"{", DQ, "k", NUL, DQ, ":", " ", "null", "}">> }
Files == [readable : BOOLEAN, pages : SeqsUpTo(ParserTexts, MaxPages)]
MimeTypes ==
    { PDF, DOCX, JSON, HTML, Mime("text", "plain"), Mime("text", "csv"),
      Mime("image", "png"), Mime("application", "msword"),
      Mime("application", "octet-stream"),
      Mime("application", "vnd.openxmlformats-officedocument.spreadsheetml.sheet") }
Url == [base |-> "site/page", query |-> "q=1"]
WebTexts == SeqsUpTo({"a", " ", "\n"}, MaxWebText)
WebChunkSizes == {2, 3, 4}
WebOverlaps == {0, 1}

\* document_processor.py lines 94 and 109: the parser of the file's type
\* parses the file
parse_file_call ==
    /\ call = Idle
    /\ \E mime_type \in MimeTypes, file \in Files :
        LET parser == get_parser(mime_type)
            metadata == [filename |-> "f", mime_type |-> mime_type]
        IN  /\ parser \notin {None, "web_parser"}
            /\ call' = [op |-> "parse", parser |-> parser, mime_type |-> mime_type,
                        file |-> file, result |-> parser_parse(parser, file, metadata)]
    /\ UNCHANGED <<store, collections, created, callers, returned, chunker, settings, db, watch,
                   phase, llm, attempts, failed>>

\* api/endpoints/documents.py lines 177-180: the web parser parses a page
parse_web_call ==
    /\ call = Idle
    /\ \E page \in Files, chunk_size \in WebChunkSizes, overlap \in WebOverlaps :
        call' = [op |-> "parse", parser |-> "web_parser", mime_type |-> HTML, file |-> page,
                 result |-> web_parser_parse(page, Url, [url |-> Url], chunk_size, overlap)]
    /\ UNCHANGED <<store, collections, created, callers, returned, chunker, settings, db, watch,
                   phase, llm, attempts, failed>>

\* web_parser.py line 51: _split_text on a page text
split_web_text_call ==
    /\ call = Idle
    /\ \E text \in WebTexts, chunk_size \in WebChunkSizes, overlap \in WebOverlaps :
        call' = [op |-> "_split_text", text |-> text, chunk_size |-> chunk_size,
                 overlap |-> overlap, result |-> web_split_text(text, chunk_size, overlap)]
    /\ UNCHANGED <<store, collections, created, callers, returned, chunker, settings, db, watch,
                   phase, llm, attempts, failed>>

ParseInit == ChunkInit

ParseNext ==
    \/ parse_file_call
    \/ parse_web_call
    \/ split_web_text_call
    \/ Return

ParseSpec == ParseInit /\ [][ParseNext]_vars

\* The conversion of query results into segments, under tables around the
\* thresholds of its views.
RowCounts == {1, 2, 3, 4, 20, 21, 50, 51}
\* a column is null in none of the rows, in the first, in all but the last
\* two or in all of them
NullRows(rows) == {{}, {1}, 1..(rows - 2), 1..rows}
DataFrames ==
    UNION { { [rows |-> rows, columns |-> <<[name |-> "id", nulls |-> {}]>>] } \cup
            { [rows |-> rows,
               columns |-> <<[name |-> "id", nulls |-> {}], [name |-> "name", nulls |-> nulls]>>]
              : nulls \in NullRows(rows) }
          : rows \in RowCounts }
TabularConfigs ==
    [strategy : {"recursive"}, chunk_size : {8, 200}, chunk_overlap : {0, 2},
     min_chunk_size : {1}]

\* document_processor.py lines 259-268: process_database hands the query
\* result to data_to_documents
data_to_documents_call ==
    /\ call = Idle
    /\ \E df \in DataFrames, pick \in {"head", "tail"} :
        call' = [op |-> "data_to_documents", df |-> df, pick |-> pick,
                 result |-> data_to_documents(df, [query |-> "q", row_count |-> df.rows],
                                              chunker, pick)]
    /\ UNCHANGED <<store, collections, created, callers, returned, chunker, settings, db, watch,
                   phase, llm, attempts, failed>>

TabularInit ==
    /\ store = EmptyStore
    /\ collections = NoHandles
    /\ created = NeverCreated
    /\ callers = AllIdle
    /\ returned = <<>>
    /\ chunker \in {ChunkingService(config) : config \in TabularConfigs}
    /\ settings = NoSettings
    /\ phase = "UNINITIALIZED"
    /\ llm = None
    /\ attempts = <<>>
    /\ failed = {}
    /\ call = Idle
    /\ db = EmptyDb
    /\ watch = NoWatch

TabularNext ==
    \/ data_to_documents_call
    \/ Return

TabularSpec == TabularInit /\ [][TabularNext]_vars

\* Ingestion: files and pages processed into documents, and segments added
\* to the vector store directly, with or without ids.
MaxDocuments == 2     \* document ids drawn before ingestion stops

\* str(uuid.uuid4()) of the n-th document
DocIds == <<"doc1", "doc2", "doc3", "doc4">>

\* the uuid4 a chunk row gets as its primary key (models/document.py line
\* 48).  uuid4 values do not repeat: the rows' keys are numbered below zero,
\* the ids the index draws above.
RowUuid(number, chunk_index) == Uuid(0 - (number * (MaxPages + 1) + chunk_index + 1))

\* models/document.py lines 11-41: a row of the documents table as the
\* processors build it
DBDocument(id, filename, mime_type, source_type) ==
    [id |-> id, filename |-> filename, mime_type |-> mime_type, source_type |-> source_type,
     is_processed |-> FALSE, is_indexed |-> FALSE, processing_error |-> None,
     collection_name |-> "documents"]

\* models/document.py lines 44-70: the rows of the chunks table for the
\* segments of a document; no column holds the id the index gave a segment
DocumentChunks(number, doc_id, parsed_documents) ==
    [i \in DOMAIN parsed_documents |->
        [id |-> RowUuid(number, i - 1), document_id |-> doc_id, chunk_index |-> i - 1,
         content |-> parsed_documents[i].page_content]]

\* db.add(db_document); db.commit(), with the uuid4 drawn for it
AddRecord(d, record) ==
    [d EXCEPT !.documents = Append(@, record), !.drawn = @ + 1]

\* attribute assignments on the row of a document, committed
SetRecord(d, id, fields) ==
    [d EXCEPT !.documents =
        [i \in DOMAIN @ |-> IF @[i].id = id THEN Update(@[i], fields) ELSE @[i]]]

AddChunks(d, rows) == [d EXCEPT !.chunks = @ \o rows]

HasRecord(d, id) == \E i \in DOMAIN d.documents : d.documents[i].id = id
RecordOf(d, id) == d.documents[CHOOSE i \in DOMAIN d.documents : d.documents[i].id = id]
ChunksOf(d, id) == SelectSeq(d.chunks, LAMBDA row : row.document_id = id)

\* the segments handed to the index: document_id is added to the metadata
\* of each (process_file lines 144-147); the distance a query will see is
\* the segment's position
WithDocumentId(parsed_documents, doc_id) ==
    [i \in DOMAIN parsed_documents |->
        Seg(parsed_documents[i].page_content,
            Update(parsed_documents[i].metadata, [document_id |-> doc_id]), i)]

\* vector_store.py lines 211-224 after get_collection: Chroma deletes the
\* segments stored under the ids and ignores ids it does not hold
vector_store_delete(st, name, ids) ==
    LET col == st[name]
        kept == SelectSeq([i \in DOMAIN col.ids |-> i], LAMBDA i : col.ids[i] \notin Range(ids))
    IN  [st EXCEPT ![name] =
            [col EXCEPT !.segments = [k \in DOMAIN kept |-> col.segments[kept[k]]],
                        !.ids = [k \in DOMAIN kept |-> col.ids[kept[k]]]]]

NoParserError == "No parser available for MIME type"
NoContentError == "No content extracted from document"

\* the files uploaded: a text file, a PDF of two pages, an image, a PDF of
\* a blank page and two files of types without a parser
Uploads ==
    { [filename |-> "a.txt", mime_type |-> Mime("text", "plain"),
       content |-> [readable |-> TRUE, pages |-> << <<"a", " ", "b">> >>]],
      [filename |-> "b.pdf", mime_type |-> PDF,
       content |-> [readable |-> TRUE, pages |-> << <<"a", NUL, "b">>, <<"a", " ", "b">> >>]],
      [filename |-> "c.png", mime_type |-> Mime("image", "png"),
       content |-> [readable |-> TRUE, pages |-> << <<"a", " ", "b">> >>]],
      [filename |-> "e.pdf", mime_type |-> PDF,
       content |-> [readable |-> TRUE, pages |-> << <<" ">> >>]],
      [filename |-> "z.bin", mime_type |-> Mime("application", "octet-stream"),
       content |-> [readable |-> TRUE, pages |-> << <<"a", " ", "b">> >>]],
      [filename |-> "y.doc", mime_type |-> Mime("application", "msword"),
       content |-> [readable |-> TRUE, pages |-> << <<"a", " ", "b">> >>]] }

\* what the services around the processor do during one call: nothing goes
\* wrong; the object storage refuses the upload (line 62); the index raises
\* in add_documents (line 150); the database refuses the last commit (line
\* 168) and takes the one of the handler (line 183), or refuses both
Faults == {"none", "storage", "vector_store", "commit", "commit_twice"}

\* no collection holds more than MaxStored segments
Fits(st) == \A name \in CollectionUniverse : Len(st[name].ids) <= MaxStored

\* document_processor.py lines 23-189: process_file, called with a database
\* session (file_watcher.py line 270, documents.py line 102), once the
\* file's type has been dispatched and the file parsed.  doc_id is a new
\* uuid4 on every call (line 48); the segments go to the vector store
\* without ids (lines 150-153).  A commit that fails rolls the session back:
\* the assignments since the commit before it are lost.
StoreParsed(file, fault, d, st, cache, made, parser, parsed_documents) ==
    LET number == d.drawn + 1
        doc_id == DocIds[number]
        db_document == DBDocument(doc_id, file.filename, file.mime_type, "file")
        collection_name == IF file.mime_type.major = "image" THEN "images" ELSE "documents"
        recorded == AddRecord(d, db_document)
        chunked == SetRecord(AddChunks(recorded,
                                       DocumentChunks(number, doc_id, parsed_documents)),
                             doc_id, [is_processed |-> TRUE])
        g == get_collection(st, cache, made, collection_name)
        added == add_documents(g.store, collection_name,
                               WithDocumentId(parsed_documents, doc_id), <<>>)
        this == [op |-> "process_file", file |-> file, fault |-> fault, id |-> doc_id,
                 parser |-> parser, parsed_documents |-> parsed_documents, before |-> st]
        untouched == [store |-> st, collections |-> cache, created |-> made]
        after(index, database, result) ==
            [store |-> index.store, collections |-> index.collections,
             created |-> index.created, db |-> database,
             call |-> Update(this, [result |-> result])]
    IN  IF fault = "storage"
        THEN [after(untouched, [d EXCEPT !.drawn = number],
                    [id |-> doc_id, status |-> "error", error |-> "upload failed"])
                EXCEPT !.call.parser = None, !.call.parsed_documents = <<>>]
        ELSE IF parser = None
        THEN after(untouched,
                   SetRecord(recorded, doc_id,
                             [processing_error |-> NoParserError, is_processed |-> TRUE]),
                   [id |-> doc_id, status |-> "error", error |-> NoParserError])
        ELSE IF parsed_documents = <<>>
        THEN after(untouched,
                   SetRecord(recorded, doc_id,
                             [processing_error |-> NoContentError, is_processed |-> TRUE]),
                   [id |-> doc_id, status |-> "warning"])
        ELSE IF fault = "vector_store"
        THEN after(g, SetRecord(chunked, doc_id, [processing_error |-> "add_documents failed"]),
                   [id |-> doc_id, status |-> "error", error |-> "add_documents failed"])
        ELSE IF fault = "none"
        THEN after([g EXCEPT !.store = added.store],
                   SetRecord(chunked, doc_id,
                             [is_indexed |-> TRUE, collection_name |-> collection_name]),
                   [id |-> doc_id, status |-> "success",
                    chunk_count |-> Len(parsed_documents), collection |-> collection_name])
        ELSE IF fault = "commit"
        THEN after([g EXCEPT !.store = added.store],
                   SetRecord(chunked, doc_id, [processing_error |-> "commit failed"]),
                   [id |-> doc_id, status |-> "error", error |-> "commit failed"])
        ELSE after([g EXCEPT !.store = added.store], chunked, [status |-> "raised"])

\* lines 93-109: the parser of the file's type, when there is one, parses
\* the file
ProcessFile(file, fault, d, st, cache, made) ==
    StoreParsed(file, fault, d, st, cache, made, get_parser(file.mime_type),
                IF get_parser(file.mime_type) = None THEN <<>>
                ELSE parser_parse(get_parser(file.mime_type), file.content,
                                  [filename |-> file.filename, mime_type |-> file.mime_type]))

\* what a call leaves in the index and the database
Leaves(done) ==
    /\ Fits(done.store)
    /\ store' = done.store
    /\ collections' = done.collections
    /\ created' = done.created
    /\ db' = done.db

\* POST /documents/upload (documents.py lines 31-131) hands the file to
\* process_file
Answers(done) == Leaves(done) /\ call' = done.call

process_file ==
    /\ call = Idle
    /\ db.drawn < MaxDocuments
    /\ \E file \in Uploads, fault \in Faults :
        Answers(ProcessFile(file, fault, db, store, collections, created))
    /\ UNCHANGED <<callers, returned, chunker, settings, watch, phase, llm, attempts, failed>>

\* the pages fetched: one with text, an empty one, one that cannot be fetched
WebPages ==
    { [readable |-> TRUE, pages |-> << <<"a", " ", "b">> >>],
      [readable |-> TRUE, pages |-> <<>>],
      [readable |-> FALSE, pages |-> <<>>] }
WebChunkSize == 3000
WebOverlap == 200

\* api/endpoints/documents.py lines 134-247: POST /documents/web.  The
\* chunk rows and the flags are committed together at the end (line 234); an
\* exception leaves the record as it was first committed (lines 242-247).
StoreWebPage(page, fault, d, st, cache, made, parsed_documents) ==
    LET number == d.drawn + 1
        doc_id == DocIds[number]
        collection_name == "web_pages"
        recorded == AddRecord(d, DBDocument(doc_id, Url.base, HTML, "web"))
        g == get_collection(st, cache, made, collection_name)
        added == add_documents(g.store, collection_name,
                               WithDocumentId(parsed_documents, doc_id), <<>>)
        this == [op |-> "process_web_page", page |-> page, fault |-> fault, id |-> doc_id,
                 parsed_documents |-> parsed_documents, before |-> st]
        after(index, database, result) ==
            [store |-> index.store, collections |-> index.collections,
             created |-> index.created, db |-> database,
             call |-> Update(this, [result |-> result])]
    IN  IF parsed_documents = <<>>
        THEN after([store |-> st, collections |-> cache, created |-> made],
                   SetRecord(recorded, doc_id,
                             [processing_error |-> "No content extracted from web page",
                              is_processed |-> TRUE]),
                   [id |-> doc_id, status |-> "warning"])
        ELSE IF fault = "vector_store"
        THEN after(g, recorded, [status |-> "error", error |-> "add_documents failed"])
        ELSE after([g EXCEPT !.store = added.store],
                   SetRecord(AddChunks(recorded,
                                       DocumentChunks(number, doc_id, parsed_documents)),
                             doc_id, [is_processed |-> TRUE, is_indexed |-> TRUE,
                                      collection_name |-> collection_name]),
                   [id |-> doc_id, status |-> "success", collection |-> collection_name])

process_web_page ==
    /\ call = Idle
    /\ db.drawn < MaxDocuments
    /\ \E page \in WebPages, fault \in {"none", "vector_store"} :
        Answers(StoreWebPage(page, fault, db, store, collections, created,
                             web_parser_parse(page, Url,
                                              [url |-> Url, domain |-> "site", path |-> "page"],
                                              WebChunkSize, WebOverlap)))
    /\ UNCHANGED <<callers, returned, chunker, settings, watch, phase, llm, attempts, failed>>

\* the results of the queries run: no row, or a small table
QueryResults ==
    { [rows |-> 0, columns |-> <<[name |-> "id", nulls |-> {}]>>],
      [rows |-> 2, columns |-> <<[name |-> "id", nulls |-> {}]>>],
      [rows |-> 3, columns |-> <<[name |-> "id", nulls |-> {}], [name |-> "name", nulls |-> {1}]>>] }

\* document_processor.py lines 225-331: process_database.  The record is
\* built with the keyword processed (line 282), which the Document model
\* does not have (its column is is_processed): the constructor raises, the
\* handler rolls back and nothing is stored.
DatabaseResult(df, converted) ==
    IF df.rows = 0 THEN [status |-> "warning"]
    ELSE IF converted.raised THEN [status |-> "error", error |-> "sample failed"]
    ELSE IF converted.documents = <<>> THEN [status |-> "warning"]
    ELSE [status |-> "error", error |-> "invalid keyword processed"]

process_database ==
    /\ call = Idle
    /\ \E df \in QueryResults :
        call' = [op |-> "process_database", df |-> df,
                 result |-> DatabaseResult(df, data_to_documents(
                                df, [query |-> "q", row_count |-> df.rows], chunker, "head"))]
    /\ UNCHANGED <<store, collections, created, callers, returned, chunker, settings, db, watch,
                   phase, llm, attempts, failed>>

\* document_processor.py lines 333-394: delete_document, behind DELETE
\* /documents/{id}.  A failure of the index while deleting is logged and
\* passed over (lines 367-368).
delete_document ==
    /\ call = Idle
    /\ \E document_id \in Range(DocIds), outcome \in Outcomes :
        LET this == [op |-> "delete_document", document_id |-> document_id,
                     outcome |-> outcome, before |-> store]
        IN  IF ~HasRecord(db, document_id)
            THEN /\ call' = Update(this, [result |-> [status |-> "error"]])
                 /\ UNCHANGED <<store, collections, created, db>>
            ELSE LET document == RecordOf(db, document_id)
                     chunks == ChunksOf(db, document_id)
                     chunk_ids == [i \in DOMAIN chunks |-> chunks[i].id]
                     g == get_collection(store, collections, created, document.collection_name)
                 IN  /\ IF chunk_ids = <<>>
                        THEN UNCHANGED <<store, collections, created>>
                        ELSE /\ store' = IF outcome = "ok"
                                         THEN vector_store_delete(g.store,
                                                                  document.collection_name,
                                                                  chunk_ids)
                                         ELSE g.store
                             /\ collections' = g.collections
                             /\ created' = g.created
                     /\ db' = [db EXCEPT
                                 !.documents = SelectSeq(@, LAMBDA row : row.id # document_id),
                                 !.chunks = SelectSeq(@, LAMBDA row : row.document_id # document_id)]
                     /\ call' = Update(this, [result |-> [status |-> "success"]])
    /\ UNCHANGED <<callers, returned, chunker, settings, watch, phase, llm, attempts, failed>>

\* the segments and ids a direct caller of add_documents brings
Batches ==
    { [documents |-> <<Seg("a1", [document_id |-> "docA"], 1),
                       Seg("a2", [document_id |-> "docA"], 2)>>,
       ids |-> <<Given(1), Given(2)>>],
      [documents |-> <<Seg("a1", [document_id |-> "docA"], 1),
                       Seg("a2", [document_id |-> "docA"], 2)>>,
       ids |-> <<>>],
      [documents |-> <<Seg("b1", [document_id |-> "docB"], 3)>>,
       ids |-> <<Given(2)>>],
      [documents |-> <<Seg("b1", [document_id |-> "docB"], 3)>>,
       ids |-> <<Given(3)>>] }

\* vector_store.py lines 153-167: VectorStore.add_documents called with a
\* batch; before is the collection as the call found it
add_documents_call ==
    /\ call = Idle
    /\ \E batch \in Batches, collection_name \in {"web_pages"} :
        LET g == get_collection(store, collections, created, collection_name)
            added == add_documents(g.store, collection_name, batch.documents, batch.ids)
        IN  /\ Len(added.store[collection_name].ids) <= MaxStored
            /\ store' = added.store
            /\ collections' = g.collections
            /\ created' = g.created
            /\ call' = [op |-> "add_documents", collection_name |-> collection_name,
                        documents |-> batch.documents, ids |-> batch.ids,
                        before |-> g.store[collection_name],
                        result |-> added.ids]
    /\ UNCHANGED <<callers, returned, chunker, settings, db, watch, phase, llm, attempts, failed>>

IngestInit == Init

IngestNext ==
    \/ add_documents_call
    \/ Return

IngestSpec == IngestInit /\ [][IngestNext]_vars

\* The life of a document: uploads, web pages and query results ingested,
\* documents deleted.
LifecycleInit ==
    /\ store = EmptyStore
    /\ collections = NoHandles
    /\ created = NeverCreated
    /\ callers = AllIdle
    /\ returned = <<>>
    /\ chunker = ChunkingService([strategy |-> "recursive", chunk_size |-> 8,
                                  chunk_overlap |-> 2, min_chunk_size |-> 1])
    /\ settings = NoSettings
    /\ phase = "UNINITIALIZED"
    /\ llm = None
    /\ attempts = <<>>
    /\ failed = {}
    /\ call = Idle
    /\ db = EmptyDb
    /\ watch = NoWatch

LifecycleNext ==
    \/ process_file
    \/ process_web_page
    \/ process_database
    \/ delete_document
    \/ Return

LifecycleSpec == LifecycleInit /\ [][LifecycleNext]_vars

\* The file watcher (services/file_watcher.py): its loop scans the watched
\* directory, processes the files found new or modified one by one and
\* marks each one ingested; other processes write files meanwhile.
MaxMtime == 2         \* times a file is written
MaxIngestions == 3    \* files the watcher hands to the processor before it stops

\* the files of the watched directory in the order os.walk lists them, with
\* the name and the type lines 244-260 derive from the path
WatchedFiles ==
    << [file_path |-> "documents/a.txt", filename |-> "a.txt",
        mime_type |-> Mime("text", "plain")],
       [file_path |-> "documents/c.png", filename |-> "c.png",
        mime_type |-> Mime("image", "png")] >>
WatchedPaths == {WatchedFiles[i].file_path : i \in DOMAIN WatchedFiles}

\* os.stat and get_file_hash of a file
Stat(size, mtime, hash) == [size |-> size, mtime |-> mtime, hash |-> hash]
Sizes == {1, 2}
Hashes == {"h1", "h2"}

\* the bytes of a file with a hash
FileData(hash) ==
    [readable |-> TRUE,
     pages |-> IF hash = "h1" THEN << <<"a", " ", "b">> >> ELSE << <<"b">> >>]

\* lines 92-135: the rows of the tracking table as a dict by path; {} when
\* the table cannot be read
get_processed_files(table, read) == IF read = "ok" THEN table ELSE <<>>

\* lines 191-209: a file is new, or its size or time differs and then its
\* hash differs too
is_file_modified(stat, file_path, processed_files) ==
    IF file_path \notin DOMAIN processed_files THEN TRUE
    ELSE /\ \/ stat.size # processed_files[file_path].size
            \/ stat.mtime > processed_files[file_path].last_modified
         /\ stat.hash # processed_files[file_path].file_hash

\* lines 137-189: the row of the path inserted or updated; a database error
\* is logged and the table stays as it was
mark_as_processed(table, file_path, stat, document_id, mark) ==
    IF mark = "ok"
    THEN DictSet(table, file_path,
                 [file_hash |-> stat.hash, size |-> stat.size, last_modified |-> stat.mtime,
                  document_id |-> document_id])
    ELSE table

\* lines 211-239 at the start of a round of the loop (lines 312-318)
scan_directory ==
    /\ call = Idle
    /\ watch.modified_files = <<>>
    /\ \E read \in Outcomes :
        LET processed_files == get_processed_files(watch.table, read)
            modified_files ==
                SelectSeq(WatchedFiles,
                          LAMBDA file : is_file_modified(watch.files[file.file_path],
                                                         file.file_path, processed_files))
        IN  /\ watch' = [watch EXCEPT !.modified_files = modified_files]
            /\ call' = [op |-> "scan_directory", read |-> read, result |-> modified_files]
    /\ UNCHANGED <<store, collections, created, callers, returned, chunker, settings, db,
                   phase, llm, attempts, failed>>

\* lines 320-334 for the next file of the round: process_file (lines
\* 241-287) hands it to the document processor and returns the document id
\* on success only; the file is then marked with its stat and hash
Marks(file, stat, mark, done, document_id) ==
    /\ Leaves(done)
    /\ watch' = [watch EXCEPT
          !.modified_files = Tail(@),
          !.table = IF document_id # None
                    THEN mark_as_processed(@, file.file_path, stat, document_id, mark)
                    ELSE @,
          !.ingested = IF document_id # None
                       THEN Append(@, [file_path |-> file.file_path, stat |-> stat,
                                       document_id |-> document_id])
                       ELSE @]

Processes(file, stat, fault, mark, done) ==
    /\ Marks(file, stat, mark, done,
             IF done.call.result.status = "success" THEN done.call.id ELSE None)
    /\ call' = [op |-> "watcher_process_file", file_path |-> file.file_path,
                stat |-> stat, fault |-> fault, mark |-> mark,
                result |-> done.call.result]

watcher_process_file ==
    /\ call = Idle
    /\ watch.modified_files # <<>>
    /\ db.drawn < MaxIngestions
    /\ \E fault \in Faults, mark \in Outcomes :
        LET file == Head(watch.modified_files)
            stat == watch.files[file.file_path]
        IN  Processes(file, stat, fault, mark,
                      ProcessFile([filename |-> file.filename, mime_type |-> file.mime_type,
                                   content |-> FileData(stat.hash)],
                                  fault, db, store, collections, created))
    /\ UNCHANGED <<callers, returned, chunker, settings, phase, llm, attempts, failed>>

\* another process writes a watched file: its time moves on, its size and
\* content may change
write_file ==
    /\ \E file_path \in WatchedPaths, size \in Sizes, hash \in Hashes :
        /\ watch.files[file_path].mtime < MaxMtime
        /\ watch' = [watch EXCEPT
              !.files[file_path] = Stat(size, @.mtime + 1, hash)]
    /\ UNCHANGED <<store, collections, created, callers, returned, chunker, settings, db,
                   phase, llm, attempts, failed, call>>

WatchInit ==
    /\ store = EmptyStore
    /\ collections = NoHandles
    /\ created = NeverCreated
    /\ callers = AllIdle
    /\ returned = <<>>
    /\ chunker = NoChunker
    /\ settings = NoSettings
    /\ phase = "UNINITIALIZED"
    /\ llm = None
    /\ attempts = <<>>
    /\ failed = {}
    /\ call = Idle
    /\ db = EmptyDb
    /\ watch = [NoWatch EXCEPT !.files = [file_path \in WatchedPaths |-> Stat(1, 1, "h1")]]

WatchNext ==
    \/ scan_directory
    \/ watcher_process_file
    \/ write_file
    \/ Return

WatchSpec == WatchInit /\ [][WatchNext]_vars

\* The generator from process start: its construction, then generation
\* requests.
LLMSettings ==
    [LLM_PROVIDER : Providers, OPENAI_API_KEY : BOOLEAN, AZURE_OPENAI : BOOLEAN]

GenInit ==
    /\ store \in {PopulatedStore, EmptyStore}
    /\ collections = NoHandles
    /\ created = NeverCreated
    /\ callers = AllIdle
    /\ returned = <<>>
    /\ chunker = NoChunker
    /\ settings \in LLMSettings
    /\ phase = "UNINITIALIZED"
    /\ llm = None
    /\ attempts = <<>>
    /\ failed = {}
    /\ call = Idle
    /\ db = EmptyDb
    /\ watch = NoWatch

GenNext ==
    \/ Construct
    \/ TryPrimary
    \/ TrySecondary
    \/ generate_answer
    \/ Return

GenSpec == GenInit /\ [][GenNext]_vars

\* Structured extraction, served by a generator whose configured provider
\* initialized.
ExtractInit ==
    /\ store = PopulatedStore
    /\ collections = NoHandles
    /\ created = NeverCreated
    /\ callers = AllIdle
    /\ returned = <<>>
    /\ chunker = NoChunker
    /\ settings \in {cfg \in LLMSettings :
                        IF cfg.LLM_PROVIDER = "azure" THEN cfg.AZURE_OPENAI
                                                      ELSE cfg.OPENAI_API_KEY}
    /\ phase = "SUCCESS"
    /\ llm = settings.LLM_PROVIDER
    /\ attempts = <<settings.LLM_PROVIDER>>
    /\ failed = {}
    /\ call = Idle
    /\ db = EmptyDb
    /\ watch = NoWatch

ExtractNext ==
    \/ extract_structured
    \/ Return

ExtractSpec == ExtractInit /\ [][ExtractNext]_vars

(***************************************************************************)
(* Properties of the retrieval engine.                                     *)
(***************************************************************************)
Retrieved == call.op = "retrieve"

Scores(pairs) == [i \in DOMAIN pairs |-> pairs[i].key]
DocScores(docs) == [i \in DOMAIN docs |-> docs[i].score]
NonDecreasing(xs) == \A i, j \in DOMAIN xs : i < j => xs[i] <= xs[j]
SortedInts(xs) == Scores(sorted([i \in DOMAIN xs |-> [key |-> xs[i], val |-> i]]))
Vals(pairs) == [i \in DOMAIN pairs |-> pairs[i].val]

\* C1: a retrieval with a non-empty document_ids list returns only segments
\* whose document_id is one of document_ids, whatever single document_id or
\* caller filter on document_id comes with it.
C1_DocumentIdsScope ==
    (Retrieved /\ Len(call.args.document_ids) > 0) =>
        \A i \in DOMAIN call.result.documents :
            call.result.documents[i].metadata.document_id \in Range(call.args.document_ids)

\* the plural list, a single id outside it and a caller filter on another
\* document all at once, and segments of the listed documents came back
C1_Witness ==
    /\ Retrieved
    /\ call.args.document_ids = <<"docB", "docC">>
    /\ call.args.document_id = "docA"
    /\ call.args.filter_criteria = [document_id |-> Eq("docC")]
    /\ \E i \in DOMAIN call.result.documents :
           call.result.documents[i].metadata.document_id = "docB"

\* C2 as stated: at most top_k segments are kept over all collections
\* together, and they are the nearest of all pairs collected.
C2_GlobalTopK ==
    Retrieved =>
        /\ Len(call.result.documents) <= call.args.top_k
        /\ SortedInts(DocScores(call.result.documents)) =
               Take(SortedInts(Scores(call.result.pairs)), Len(call.result.documents))

\* C3 as stated: the returned segments are in non-decreasing distance order,
\* equal distances in the order the collections returned them.
C3_OrderedByScore ==
    Retrieved =>
        LET docs == call.result.documents
        IN  /\ NonDecreasing(DocScores(docs))
            /\ docs = Take(Vals(sorted(call.result.pairs)), Len(docs))

\* the outcomes of the last retrieval's searches, and the same with every
\* raising search replaced by one that returns nothing
CallNames == DefaultCollections(call.args.collection_names)
CallResults ==
    [i \in DOMAIN CallNames |->
        SearchOutcome(store, CallNames[i], call.result.filter, call.args.top_k, call.outcomes[i])]
Quiet(results) ==
    [i \in DOMAIN results |->
        IF results[i].raised THEN [raised |-> FALSE, pairs |-> <<>>] ELSE results[i]]

\* C8: a collection whose search raises does not stop the others: the call
\* returns, every requested collection was searched, and the result is the
\* one an empty answer from the failing collections would have given.
C8_FailureIsolated ==
    (Retrieved /\ "raise" \in Range(call.outcomes)) =>
        /\ ~call.result.raised
        /\ call.result.searched = CallNames
        /\ call.result = AssembleResult(CallNames, call.result.filter, Quiet(CallResults))

\* the first collection raised, a later one was searched and gave segments
C8_Witness ==
    /\ Retrieved
    /\ Len(call.outcomes) = 2
    /\ call.outcomes[1] = "raise"
    /\ call.outcomes[2] = "ok"
    /\ call.result.documents # <<>>

\* C9 as stated: a retrieval without a collection list searches every
\* collection name of the configuration's collection table.
C9_DefaultIsAllConfigured ==
    (Retrieved /\ call.request.collection_names = <<>>) =>
        Range(call.result.searched) = Range(DictValues(COLLECTIONS))

(***************************************************************************)
(* Properties of the generation orchestrator.                              *)
(***************************************************************************)
Concluding == phase \in {"SUCCESS", "FAILED"}
Generated == call.op = "generate"
Other(provider) == IF provider = "azure" THEN "openai" ELSE "azure"

\* C4 as stated: when the initialization of both providers failed the
\* generator ends FAILED, without an llm and serving nothing; a provider that
\* failed is never the active model.
C4_BothFailedIsFailed ==
    Concluding =>
        /\ llm \notin failed
        /\ (Providers \subseteq failed) =>
               (phase = "FAILED" /\ llm = None /\ ~Generated)

\* C5 as stated: whichever provider is primary, its failure is followed by
\* exactly one attempt of the other one, and its success by none.
C5_SecondaryAttemptedOnce ==
    Concluding =>
        LET primary == settings.LLM_PROVIDER
        IN  IF primary \in failed
            THEN attempts = <<primary, Other(primary)>>
            ELSE attempts = <<primary>>

\* C6 as stated: the model is invoked at most once, nothing is raised, and a
\* failed invocation gives metrics with an error, the retrieval time and no
\* generation time.
C6_FailedInvocationMetrics ==
    Generated =>
        /\ call.result.invoked <= 1
        /\ ~call.result.raised
        /\ (call.result.invoked = 1 /\ call.invocation.raises) =>
               /\ "error" \in DOMAIN call.result.metrics
               /\ "retrieval_time_seconds" \in DOMAIN call.result.metrics
               /\ "generation_time_seconds" \notin DOMAIN call.result.metrics

\* C7: an empty retrieved context gives the fixed answer with zero
\* generation time and zero documents, and the model is not invoked.
C7_EmptyContextShortCircuit ==
    (Generated /\ call.retrieval.context = <<>>) =>
        /\ call.result.answer = NoInformation
        /\ call.result.metrics.generation_time_seconds = "0"
        /\ call.result.metrics.total_documents = 0
        /\ call.result.documents = <<>>
        /\ call.result.invoked = 0

\* an initialized generator answered a request whose retrieval found nothing
C7_Witness ==
    /\ Generated
    /\ llm # None
    /\ call.retrieval.context = <<>>
    /\ call.retrieval.searched # <<>>
    /\ call.result.answer = NoInformation

(***************************************************************************)
(* Properties of structured extraction.                                    *)
(***************************************************************************)
Extracted == call.op = "extract"

\* C10 as stated: a model invocation that fails during an extraction gives a
\* result of status error with an error message, never one of status success.
C10_FailedInvocationIsError ==
    (Extracted /\ call.result.invoked = 1 /\ call.invocation.raises) =>
        /\ call.result.extraction_metrics.status = "error"
        /\ "error" \in DOMAIN call.result.extraction_metrics

\* the text the last extraction parsed, when the model was invoked and
\* answered
Answered == Extracted /\ call.result.invoked = 1 /\ ~call.invocation.raises
ParsedText == Unfenced(call.invocation.text)
NotJson == Answered /\ ~json_loads(ParsedText).ok
\* the quote-free pieces of a text
QuoteFree(t) ==
    {v \in {SubSeq(t, i, j) : i \in DOMAIN t, j \in DOMAIN t} :
        DQ \notin Range(v) /\ SQ \notin Range(v)}
\* key: "value" in the text, the key bare
BareKeyValue(t, key, value) ==
    Contains(t, <<key, ":", " ", DQ>> \o value \o <<DQ>>)
\* "key": "value" in the text, at the first place where "key" stands
QuotedKeyValue(t, key, value) ==
    /\ Contains(t, <<DQ, key, DQ>>)
    /\ Find(t, <<DQ, key, DQ>>) = Find(t, <<DQ, key, DQ, ":", " ", DQ>> \o value \o <<DQ>>)
\* data[key] == value
DataHas(data, key, value) ==
    \E i \in DOMAIN data : data[i].key = <<key>> /\ data[i].value = Str(value)

SchemaKeys == {<<call.schema_definition[i]>> : i \in DOMAIN call.schema_definition}
DataKeys(data) == {data[i].key : i \in DOMAIN data}

\* C12: whatever the model answers and whatever the schema, the extraction
\* returns a result and raises nothing; when the answer is not JSON the data
\* are what the tolerant scan builds, with keys of the schema only.
C12_ExtractNeverRaises ==
    Extracted =>
        /\ ~call.result.raised
        /\ call.result.extraction_metrics.status \in {"success", "error"}
        /\ (NotJson /\ UsesLlm(call.extraction_strategy)) =>
               /\ call.result.data =
                      fallback_extraction_with_pydantic(ParsedText, call.schema_definition)
               /\ DataKeys(call.result.data) \subseteq SchemaKeys

\* the model answered JSON that is no object, which the field loop cannot
\* iterate, and the caller got an error result
C12_Witness ==
    /\ Answered
    /\ call.invocation.text = <<"[", "]">>
    /\ call.result.extraction_metrics.status = "error"
    /\ call.result.data = <<>>

\* C13: an extraction on an unknown document id, or on a document without
\* stored chunks, gives an error result with empty data and fields; nothing
\* is raised and the model is not invoked.
C13_MissingDocumentIsError ==
    (Extracted /\ (call.document_id \notin DOMAIN DbDocuments
                     \/ Get(DbDocuments, call.document_id, 1) = 0)) =>
        /\ call.result.extraction_metrics.status = "error"
        /\ call.result.data = <<>>
        /\ call.result.fields = <<>>
        /\ ~call.result.raised
        /\ call.result.invoked = 0

\* a document without chunks was asked for with a model that would have
\* answered valid JSON
C13_Witness ==
    /\ Extracted
    /\ call.document_id = "docE"
    /\ call.invocation = Returns(JsonTitle)
    /\ UsesLlm(call.extraction_strategy)
    /\ call.result.extraction_metrics.error = "No document chunks found"

\* the extraction requests that came with one document, schema, template
\* and model response, whatever their strategy
SameRequest(c, strategy) == [c EXCEPT !.extraction_strategy = strategy]
ResultOf(c) ==
    extract_structured_data(c.document_id, c.schema_definition, c.extraction_strategy,
                            c.format_raises, llm, c.invocation)

C15_ConcurrentFirstAccess ==
    /\ \A t \in Callers : ~At(t, "raised")
    /\ \A name \in GetNames : created[name] <= 1

\* C16: get_collection calls made one after another create the backing
\* collection of a name at most once, and every call for a name returns
\* the handle the first call for that name returned.
C16_CreatedOnceSameHandle ==
    /\ \A name \in CollectionUniverse : created[name] <= 1
    /\ \A i, j \in DOMAIN returned :
           returned[i].name = returned[j].name => returned[i].handle = returned[j].handle

\* the same missing collection was asked for twice: created by the first
\* call, served from the cache by the second
C16_Witness ==
    /\ Len(returned) = 2
    /\ returned[1].name = "web_pages"
    /\ returned[2].name = "web_pages"
    /\ created["web_pages"] = 1
    /\ returned[2].handle = returned[1].handle

(***************************************************************************)
(* Properties of the embedding provider selection.                         *)
(***************************************************************************)
\* the selected provider can be initialized: it is a known one, its
\* credentials are complete and its client works
Initializable(cfg, outcome) ==
    /\ outcome = "works"
    /\ \/ cfg.EMBEDDING_PROVIDER = "openai" /\ cfg.OPENAI_API_KEY
       \/ /\ cfg.EMBEDDING_PROVIDER = "azure"
          /\ cfg.AZURE_OPENAI_API_KEY
          /\ cfg.AZURE_OPENAI_ENDPOINT
          /\ cfg.AZURE_EMBEDDING_DEPLOYMENT

\* C17 as stated: when the selected embedding provider cannot be
\* initialized the construction of the vector store raises, and a vector
\* store that was built has the selected provider's embeddings.
C17_BrokenProviderFails ==
    call.op = "construct" =>
        /\ ~Initializable(settings, call.outcome) => call.result.raised
        /\ ~call.result.raised => call.result.embeddings = settings.EMBEDDING_PROVIDER

(***************************************************************************)
(* Properties of ingestion.                                                *)
(***************************************************************************)
\* the last add_documents call brought ids, and every segment of it was
\* already stored under its id: the batch is inserted again
Reinserted ==
    /\ call.op = "add_documents"
    /\ call.ids # <<>>
    /\ \A i \in DOMAIN call.ids :
           \E j \in DOMAIN call.before.ids :
               /\ call.before.ids[j] = call.ids[i]
               /\ call.before.segments[j] = call.documents[i]

StrategyUnusable ==
    /\ call.op = "split_text"
    /\ \/ chunker.config.strategy \notin {"recursive", "semantic", "token", "sentence"}
       \/ chunker.config.strategy = "semantic" /\ call.semantic \in {"unavailable", "raises"}
\* the service the same configuration gives with the recursive strategy
AsRecursive == ChunkingService([chunker.config EXCEPT !.strategy = "recursive"])
Units(chunks) == UNION {Range(chunks[i]) : i \in DOMAIN chunks}

C20_PositiveAdvance ==
    (chunker.built /\ ~chunker.raised) =>
        chunker.text_splitter.window - chunker.text_splitter.overlap > 0

(***************************************************************************)
(* Properties of the parsers.                                              *)
(***************************************************************************)
Parsed == call.op = "parse"

\* C21 as stated: every segment a parser produces is free of NUL characters
\* and is not blank; pages and inputs that are blank give no segment.
C21_SegmentsCleanAndNonEmpty ==
    Parsed =>
        \A i \in DOMAIN call.result :
            /\ NUL \notin Range(call.result[i].page_content)
            /\ strip(call.result[i].page_content) # <<>>

\* C27 as stated: _split_text ends, its chunks are pieces of the text in
\* input order, and every character position of the text is in some chunk.
C27_SplitCoversText ==
    call.op = "_split_text" =>
        LET chunks == call.result.chunks
        IN  /\ ~call.result.diverges
            /\ \A i \in DOMAIN chunks :
                   chunks[i].text = Slice(call.text, chunks[i].start, chunks[i].end)
            /\ \A i, j \in DOMAIN chunks : i < j => chunks[i].start <= chunks[j].start
            /\ \A p \in 0..(Len(call.text) - 1) :
                   \E i \in DOMAIN chunks : chunks[i].start <= p /\ p < chunks[i].end

(***************************************************************************)
(* Properties of the context and of the caller's filter.                   *)
(***************************************************************************)
IsHeader(line) == "header" \in DOMAIN line
\* the header a line of the context stands under
HeaderOf(context, i) ==
    context[CHOOSE h \in 1..i : IsHeader(context[h]) /\ \A k \in (h + 1)..i : ~IsHeader(context[k])].header
Headers(context) == SelectSeq(context, IsHeader)
\* where a source is first seen among the kept segments
FirstSeen(documents, source) ==
    CHOOSE i \in DOMAIN documents :
        /\ get_source_identifier(documents[i]) = source
        /\ \A j \in 1..(i - 1) : get_source_identifier(documents[j]) # source
\* the kept segments whose text is a line's text
SegmentsOf(documents, line) == {i \in DOMAIN documents : documents[i].page_content = line.text}
ChunkOf(documents, line) ==
    Get(documents[CHOOSE i \in SegmentsOf(documents, line) : TRUE].metadata, "chunk", 0)

\* C23: the context has one header per distinct source of the kept
\* segments, in first-seen order; every kept segment's text stands once,
\* under the header of its own source; inside a block the segments are in
\* ascending chunk order.
C23_ContextBySource ==
    (Retrieved /\ ~call.result.raised) =>
        LET documents == call.result.documents
            context == call.result.context
            headers == Headers(context)
        IN  /\ \A i, j \in DOMAIN headers : headers[i] = headers[j] => i = j
            /\ {headers[i].header : i \in DOMAIN headers} =
                   {get_source_identifier(documents[i]) : i \in DOMAIN documents}
            /\ \A i, j \in DOMAIN headers :
                   i < j => FirstSeen(documents, headers[i].header) <
                            FirstSeen(documents, headers[j].header)
            /\ \A d \in DOMAIN documents :
                   \E i \in DOMAIN context :
                       /\ ~IsHeader(context[i])
                       /\ context[i].text = documents[d].page_content
                       /\ HeaderOf(context, i) = get_source_identifier(documents[d])
                       /\ \A k \in DOMAIN context :
                              (~IsHeader(context[k]) /\ context[k].text = context[i].text) => k = i
            /\ Len(context) = Len(headers) + Len(documents)
            /\ \A i \in 1..(Len(context) - 1) :
                   (~IsHeader(context[i]) /\ ~IsHeader(context[i + 1])) =>
                       ChunkOf(documents, context[i]) <= ChunkOf(documents, context[i + 1])

\* segments of two sources were kept, and two segments of a.pdf came back
\* in descending chunk order and stand in ascending order in the context
C23_Witness ==
    /\ Retrieved
    /\ Len(Headers(call.result.context)) >= 2
    /\ \E i, j \in DOMAIN call.result.documents :
           /\ i < j
           /\ call.result.documents[i].page_content = "d1"
           /\ call.result.documents[j].page_content = "d3"
    /\ \E i, j \in DOMAIN call.result.context :
           /\ i < j
           /\ call.result.context[i] = [text |-> "d3"]
           /\ call.result.context[j] = [text |-> "d1"]

\* C30 as stated: the filter the caller passed has, after the call, the
\* keys and values it had before.
C30_CallerFilterUnchanged ==
    Retrieved => call.filter_after = call.args.filter_criteria

(***************************************************************************)
(* Properties of the tabular conversion.                                   *)
(***************************************************************************)
Converted == call.op = "data_to_documents"
ColumnNames(df) == {df.columns[i].name : i \in DOMAIN df.columns}
ColumnChunks(documents) ==
    {i \in DOMAIN documents : documents[i].metadata.representation = "columns"}

\* C24 as stated: for every table with rows, columns with nulls included,
\* the conversion ends without error, and its column description lists
\* every column name with at most 3 sampled values.
C24_ColumnViewForEveryTable ==
    (Converted /\ call.df.rows > 0) =>
        /\ ~call.result.raised
        /\ {call.result.column_samples[i].column : i \in DOMAIN call.result.column_samples} =
               ColumnNames(call.df)
        /\ \A i \in DOMAIN call.result.column_samples :
               Len(call.result.column_samples[i].sample_values) <= SampleSize
        /\ \A name \in ColumnNames(call.df) :
               \E i \in ColumnChunks(call.result.documents) :
                   name \in Range(call.result.documents[i].page_content)

(***************************************************************************)
(* Properties of ingestion and deletion.                                   *)
(***************************************************************************)
\* the segments of a document in a collection, and in the whole index
StoredIn(name, document_id) ==
    SelectSeq(store[name].segments, LAMBDA seg : seg.metadata.document_id = document_id)
StoredAnywhere(document_id) ==
    \E name \in CollectionUniverse : StoredIn(name, document_id) # <<>>

\* process_file got as far as the dispatcher
Dispatched == call.op = "process_file" /\ call.fault # "storage"

\* the types the dispatcher matches exactly
ExactTable == {PDF, DOCX, JSON, HTML, Mime("application", "web")}
Unsupported(mime_type) ==
    mime_type.major \notin {"text", "image"} /\ mime_type \notin ExactTable

\* C22: for a MIME type outside text/*, image/* and the exact-match table
\* the dispatcher returns None, and process_file returns an error with the
\* reason, marks the record processed, parses nothing and stores nothing.
C22_UnsupportedIsCleanError ==
    (Dispatched /\ Unsupported(call.file.mime_type)) =>
        /\ call.parser = None
        /\ call.parsed_documents = <<>>
        /\ call.result.status = "error"
        /\ call.result.error = NoParserError
        /\ HasRecord(db, call.id)
        /\ RecordOf(db, call.id).is_processed
        /\ ~RecordOf(db, call.id).is_indexed
        /\ RecordOf(db, call.id).processing_error = NoParserError
        /\ store = call.before
        /\ ~StoredAnywhere(call.id)

\* a file of type application/octet-stream was uploaded and refused
C22_Witness ==
    /\ Dispatched
    /\ call.file.mime_type = Mime("application", "octet-stream")
    /\ call.result.status = "error"
    /\ HasRecord(db, call.id)

\* C25 as stated: once delete_document(d) has returned success, no
\* collection holds a segment whose document_id is d.
C25_DeletedLeavesNoSegment ==
    (call.op = "delete_document" /\ call.result.status = "success") =>
        ~StoredAnywhere(call.document_id)

\* the collections a query that names none searches: the retriever's own
\* default, and what the query endpoints hand it
DefaultSearched ==
    Range(DefaultCollections(<<>>)) \cup Range(DictKeys(COLLECTIONS))

\* C26 as stated: the segments of every successful ingestion are in a
\* collection a query without collection names searches.
C26_IngestedIsSearchedByDefault ==
    (call.op \in {"process_file", "process_web_page", "process_database"}
        /\ call.result.status = "success") =>
        /\ StoredIn(call.result.collection, call.id) # <<>>
        /\ call.result.collection \in DefaultSearched

\* every chunk of the document has its segment in the index
AllSegmentsStored(document_id) ==
    /\ ChunksOf(db, document_id) # <<>>
    /\ \E name \in CollectionUniverse :
          Len(StoredIn(name, document_id)) = Len(ChunksOf(db, document_id))

\* C28 as stated: when process_file has returned, the record is indexed
\* exactly if all segments of the document are in the index; after an
\* error or a warning no segment of the document is there and the record
\* is not indexed.
C28_IndexedIffStored ==
    (call.op = "process_file" /\ call.result.status \in {"success", "error", "warning"}) =>
        /\ HasRecord(db, call.id) =>
              (RecordOf(db, call.id).is_indexed <=> AllSegmentsStored(call.id))
        /\ call.result.status \in {"error", "warning"} =>
              /\ ~StoredAnywhere(call.id)
              /\ HasRecord(db, call.id) => ~RecordOf(db, call.id).is_indexed

(***************************************************************************)
(* Properties of the file watcher.                                         *)
(***************************************************************************)
\* C29 as stated: a file ingested with some size, time and hash is not
\* ingested again while these are what they were: no two ingestions are of
\* the same path with the same stat and hash.
C29_OneDocumentPerFileVersion ==
    \A i, j \in DOMAIN watch.ingested :
        (i < j /\ watch.ingested[i].file_path = watch.ingested[j].file_path) =>
            watch.ingested[i].stat # watch.ingested[j].stat

====
